---- MODULE Spec2Model ----
(***************************************************************************)
(* Triform CLI: the pull / push synchronisation of a remote project with   *)
(* a local directory tree (src/triform_cli/sync/pull.py, push.py).         *)
(*                                                                         *)
(* Text is a sequence of one-character strings.  A JSON value is a tagged  *)
(* tuple; an object keeps its key order, as a Python dict does:            *)
(*   <<"obj", <<k1, v1>>, ...>>   <<"str", "id">>   <<"txt", chars>>       *)
(*   <<"num", n>>   <<"bool", b>>   <<"arr", items>>                       *)
(* A file that may be absent is a sequence of length 0 (absent) or 1.      *)
(***************************************************************************)
EXTENDS Integers, Sequences, FiniteSets, TLC

VARIABLES
    remote,        \* the project the Remote API serves (get_project / get_component)
    fs,            \* local tree: folder path -> folder record (its files)
    config,        \* .triform/config.json : <<>> or <<project identity>>
    syncState,     \* .triform/state.json  : <<>> or <<[components, last_sync]>>
    nodeFolderMap, \* pull.py global _node_folder_map: node-key path -> folder path
    pc,            \* "init" | "modifiers" | "not_found" | "idle" | "pushing" |
                   \* "returned" | "raised" | "interrupted"
    pushArgs,      \* [force, create_new] of the push in progress / last push
    todo,          \* push: discovered components still to process
    st,            \* push: sync_state held in memory
    checksumMap,   \* push: checksum_map built from the loaded sync state
    results,       \* push: the result summary
    calls,         \* Remote API calls of the current / last push, in order
    found,         \* push: what find_all_components returned
    modTodo,       \* pull: modifier bindings still to distribute
    edits,         \* local edits made since the pull
    pushes,        \* pushes started since the pull
    watcher,       \* watch.py FileWatcher: its position and fields
    mtime,         \* file -> how often it was saved since the pull (st_mtime)
    previous       \* what the pull and the push before the current one left

vars == <<remote, fs, config, syncState, nodeFolderMap, pc, pushArgs, todo, st,
          checksumMap, results, calls, found, modTodo, edits, pushes, watcher, mtime,
          previous>>

----------------------------------------------------------------------------
(* Bounds of the model *)

MaxEdits == 2
MaxPushes == 2
MaxFailures == 1   \* Remote API calls that fail within one push

----------------------------------------------------------------------------
(* Text helpers *)

RECURSIVE MapChars(_, _)
MapChars(s, allowed) ==
    IF s = <<>> THEN <<>>
    ELSE <<IF Head(s) \in allowed THEN Head(s) ELSE "_">> \o MapChars(Tail(s), allowed)

\* str.isalnum() on the characters the model uses
AlnumChars == {"S", "s", "t", "r", "i", "g", "e", "x", "y",
               "0", "1", "2", "3", "4", "5", "6", "7", "8", "9"}
WhitespaceChars == {" ", "\n", "\r", "\t"}

HasDouble(s, c) == \E i \in 1..(Len(s) - 1) : s[i] = c /\ s[i + 1] = c

\* s.replace(c + c, c): non-overlapping occurrences, left to right
RECURSIVE ReplaceDouble(_, _)
ReplaceDouble(s, c) ==
    IF Len(s) < 2 THEN s
    ELSE IF s[1] = c /\ s[2] = c
         THEN <<c>> \o ReplaceDouble(SubSeq(s, 3, Len(s)), c)
         ELSE <<s[1]>> \o ReplaceDouble(Tail(s), c)

\* while c + c in s: s = s.replace(c + c, c)
RECURSIVE Collapse(_, _)
Collapse(s, c) == IF HasDouble(s, c) THEN Collapse(ReplaceDouble(s, c), c) ELSE s

RECURSIVE LStrip(_, _)
LStrip(s, cs) == IF s # <<>> /\ Head(s) \in cs THEN LStrip(Tail(s), cs) ELSE s

RECURSIVE RStrip(_, _)
RStrip(s, cs) ==
    IF s # <<>> /\ s[Len(s)] \in cs THEN RStrip(SubSeq(s, 1, Len(s) - 1), cs) ELSE s

Strip(s, cs) == RStrip(LStrip(s, cs), cs)

LowerChar(c) == IF c = "S" THEN "s" ELSE c
Lower(s) == [i \in 1..Len(s) |-> LowerChar(s[i])]

DigitChars == <<"0", "1", "2", "3", "4", "5", "6", "7", "8", "9">>

\* str(n) for n >= 0
RECURSIVE Str(_)
Str(n) == IF n < 10 THEN <<DigitChars[n + 1]>>
          ELSE Str(n \div 10) \o <<DigitChars[(n % 10) + 1]>>

Unnamed == <<"u", "n", "n", "a", "m", "e", "d">>
DotPy == <<".", "p", "y">>
TriggersName == <<"t", "r", "i", "g", "g", "e", "r", "s">>

\* Path.read_text(): universal newlines, "\r\n" and "\r" are read as "\n"
RECURSIVE ReadText(_)
ReadText(s) ==
    IF s = <<>> THEN <<>>
    ELSE IF Head(s) = "\r"
         THEN IF Len(s) >= 2 /\ s[2] = "\n"
              THEN <<"\n">> \o ReadText(SubSeq(s, 3, Len(s)))
              ELSE <<"\n">> \o ReadText(Tail(s))
         ELSE <<Head(s)>> \o ReadText(Tail(s))

----------------------------------------------------------------------------
(* pull.py: checksum and names *)

\* sha256(content)[:16]: a function of the content alone, taken collision free
compute_checksum(content) == <<"sha256:16", content>>

sanitize_name(name) ==
    LET safe == Collapse(MapChars(name, AlnumChars \cup {"-", "_", " "}), " ")
        stripped == Strip(safe, WhitespaceChars)
    IN  IF stripped = <<>> THEN Unnamed ELSE stripped

sanitize_filename(name) ==
    LET safe == Collapse(MapChars(name, AlnumChars \cup {"-", "_"}), "_")
        stripped == Lower(Strip(safe, {"_"}))
    IN  IF stripped = <<>> THEN Unnamed ELSE stripped

\* (base_dir / n).exists() in the tree t
Exists(t, base_dir, n) == (base_dir \o <<n>>) \in DOMAIN t

RECURSIVE NextFree(_, _, _, _, _)
NextFree(t, base_dir, dir_name, existing_dirs, counter) ==
    LET unique_name == dir_name \o <<" ">> \o Str(counter)
    IN  IF unique_name \notin existing_dirs /\ ~Exists(t, base_dir, unique_name)
        THEN unique_name
        ELSE NextFree(t, base_dir, dir_name, existing_dirs, counter + 1)

\* mutant: the suffix counter starts at 1
get_unique_dir_name_From1(t, base_dir, name, existing_dirs) ==
    LET dir_name == sanitize_name(name)
    IN  IF dir_name \notin existing_dirs /\ ~Exists(t, base_dir, dir_name)
        THEN dir_name
        ELSE NextFree(t, base_dir, dir_name, existing_dirs, 1)

\* the name returned; the caller adds it to existing_dirs
get_unique_dir_name(t, base_dir, name, existing_dirs) ==
    LET dir_name == sanitize_name(name)
    IN  IF dir_name \notin existing_dirs /\ ~Exists(t, base_dir, dir_name)
        THEN dir_name
        ELSE NextFree(t, base_dir, dir_name, existing_dirs, 2)

----------------------------------------------------------------------------
(* JSON values *)

JObj(pairs) == <<"obj", pairs>>
JStr(s) == <<"str", s>>
JTxt(chars) == <<"txt", chars>>
JNum(n) == <<"num", n>>
JBool(b) == <<"bool", b>>
JArr(items) == <<"arr", items>>
EmptyObj == JObj(<<>>)
Unparseable == <<"bad">>

HasKey(obj, k) == \E i \in 1..Len(obj[2]) : obj[2][i][1] = k

\* dict.get(k, default)
Get(obj, k, default) ==
    IF HasKey(obj, k)
    THEN obj[2][CHOOSE i \in 1..Len(obj[2]) : obj[2][i][1] = k][2]
    ELSE default

\* {k: v for k, v in obj.items() if k != drop}
RECURSIVE WithoutKey(_, _)
WithoutKey(pairs, drop) ==
    IF pairs = <<>> THEN <<>>
    ELSE (IF Head(pairs)[1] = drop THEN <<>> ELSE <<Head(pairs)>>)
         \o WithoutKey(Tail(pairs), drop)

\* Python truthiness of a JSON value
Truthy(v) ==
    CASE v[1] = "obj" -> v[2] # <<>>
      [] v[1] = "arr" -> v[2] # <<>>
      [] v[1] = "str" -> v[2] # ""
      [] v[1] = "txt" -> v[2] # <<>>
      [] v[1] = "num" -> v[2] # 0
      [] v[1] = "bool" -> v[2]
      [] OTHER -> FALSE

\* json.dumps(v): the text, as a sequence of one-character strings and tokens;
\* keys are written in the object's own order (no sort_keys)
RECURSIVE Dumps(_)
RECURSIVE DumpPairs(_, _)
RECURSIVE DumpItems(_, _)
Dumps(v) ==
    CASE v[1] = "obj" -> <<"{">> \o DumpPairs(v[2], 1) \o <<"}">>
      [] v[1] = "arr" -> <<"[">> \o DumpItems(v[2], 1) \o <<"]">>
      [] v[1] = "str" -> <<"\"", v[2], "\"">>
      [] v[1] = "txt" -> <<"\"">> \o v[2] \o <<"\"">>
      [] v[1] = "num" -> Str(v[2])
      [] v[1] = "bool" -> <<IF v[2] THEN "true" ELSE "false">>
      [] OTHER -> <<"null">>
DumpPairs(pairs, i) ==
    IF i > Len(pairs) THEN <<>>
    ELSE (IF i > 1 THEN <<", ">> ELSE <<>>)
         \o <<"\"", pairs[i][1], "\"", ": ">> \o Dumps(pairs[i][2])
         \o DumpPairs(pairs, i + 1)
DumpItems(items, i) ==
    IF i > Len(items) THEN <<>>
    ELSE (IF i > 1 THEN <<", ">> ELSE <<>>) \o Dumps(items[i])
         \o DumpItems(items, i + 1)

----------------------------------------------------------------------------
(* The local tree *)

\* a component or project folder: each file absent (<<>>) or present (<<content>>)
EmptyFolder ==
    [py |-> <<>>,            \* the *.py source file: [name, text]
     pip |-> <<>>,           \* pip_requirements.txt
     readme |-> <<>>,        \* readme.md
     io |-> <<>>,            \* io.json
     nodes |-> <<>>,         \* nodes.json
     io_nodes |-> <<>>,      \* io_nodes.json
     prompts |-> <<>>,       \* prompts.json
     settings |-> <<>>,      \* settings.json
     requirements |-> <<>>,  \* requirements.json
     modifiers |-> <<>>,     \* modifiers.json
     triform |-> <<>>,       \* .triform.json
     env |-> <<>>,           \* <project>.env (project directory only)
     meta |-> <<>>]          \* meta.json (never written by pull or push)

JsonFiles == {"io", "nodes", "io_nodes", "prompts", "settings", "requirements"}

Root == <<>>
Parent(path) == SubSeq(path, 1, Len(path) - 1)
IsPrefix(p, q) == Len(p) <= Len(q) /\ SubSeq(q, 1, Len(p)) = p
Children(t, dir) == {p \in DOMAIN t : Len(p) = Len(dir) + 1 /\ IsPrefix(dir, p)}

\* str.split("/") on the node keys and modifier paths the model uses
Split(key) ==
    CASE key = "k1/t1" -> <<"k1", "t1">>
      [] key = "k1/zz" -> <<"k1", "zz">>
      [] key = "zz/t1" -> <<"zz", "t1">>
      [] key = "k1/t1/zz" -> <<"k1", "t1", "zz">>
      [] OTHER -> <<key>>

\* "# {name}\n"
DefaultReadme(name) == <<"#", " ">> \o name \o <<"\n">>

RequirementKeys ==
    <<"context", "userStories", "outcomes", "guidelines", "dependencies",
      "boundaries", "safety">>

RECURSIVE NonEmptySections(_, _)
NonEmptySections(requirements, i) ==
    IF i > Len(RequirementKeys) THEN <<>>
    ELSE (IF Truthy(Get(requirements, RequirementKeys[i], <<"null">>))
          THEN <<<<RequirementKeys[i], Get(requirements, RequirementKeys[i], <<"null">>)>>>>
          ELSE <<>>)
         \o NonEmptySections(requirements, i + 1)

build_requirements_json(requirements, description) ==
    JObj((IF description # "" THEN <<<<"description", JStr(description)>>>> ELSE <<>>)
         \o NonEmptySections(requirements, 1))

\* io.json as the writers build it
IoData(inputs, outputs) ==
    JObj((IF Truthy(inputs) THEN <<<<"inputs", inputs>>>> ELSE <<>>)
         \o (IF Truthy(outputs) THEN <<<<"outputs", outputs>>>> ELSE <<>>))

\* the files every writer writes: readme.md, io.json, requirements.json
\* (get_component_requirements answers c.reqs, or fails and {} is used)
CommonFiles(c, reqOk) ==
    LET req_json == build_requirements_json(IF reqOk /\ c.id # "" THEN c.reqs ELSE EmptyObj,
                                            c.intention)
    IN  [EmptyFolder EXCEPT
            !.readme = <<IF c.readme = <<>> THEN DefaultReadme(c.name) ELSE c.readme>>,
            !.io = IF Truthy(c.inputs) \/ Truthy(c.outputs)
                   THEN <<IoData(c.inputs, c.outputs)>> ELSE <<>>,
            !.requirements = IF Truthy(req_json) THEN <<req_json>> ELSE <<>>]

\* node_key is truthy
KeyGiven(node_key) == node_key # <<>> /\ node_key # <<"">>

Register(map, node_key, component_dir) ==
    IF KeyGiven(node_key) THEN (node_key :> component_dir) @@ map ELSE map

write_action_folder(component, parent_dir, existing_dirs, node_key, w) ==
    LET dir_name == get_unique_dir_name(w.fs, parent_dir, component.name, existing_dirs)
        component_dir == parent_dir \o <<dir_name>>
        folder == [CommonFiles(component, w.reqOk) EXCEPT
                      !.py = IF component.source # <<>>
                             THEN <<[name |-> sanitize_filename(component.name) \o DotPy,
                                     text |-> component.source]>>
                             ELSE <<>>,
                      !.pip = IF Strip(component.pip, WhitespaceChars) # <<>>
                              THEN <<component.pip>> ELSE <<>>]
    IN  [entry |-> <<[component_id |-> component.id,
                      type |-> "action",
                      dir |-> dir_name,
                      checksum |-> compute_checksum(component.source)]>>,
         existing |-> existing_dirs \cup {dir_name},
         fs |-> (component_dir :> folder) @@ w.fs,
         map |-> Register(w.map, node_key, component_dir),
         reqOk |-> w.reqOk]

\* nodes_clean of a flow: the node definitions without the resolved specs
RECURSIVE FlowNodesClean(_)
FlowNodesClean(nodes) ==
    IF nodes = <<>> THEN <<>>
    ELSE <<<<Head(nodes).key,
             JObj(<<<<"component_id", JStr(Head(nodes).component_id)>>,
                    <<"inputs", Head(nodes).inputs>>,
                    <<"position", Head(nodes).position>>,
                    <<"loop", Head(nodes).loop>>>>)>>>>
         \o FlowNodesClean(Tail(nodes))

\* nodes_clean of an agent: the tool definitions
RECURSIVE AgentNodesClean(_)
AgentNodesClean(nodes) ==
    IF nodes = <<>> THEN <<>>
    ELSE <<<<Head(nodes).key,
             JObj(<<<<"component_id", JStr(Head(nodes).component_id)>>,
                    <<"inputs", Head(nodes).inputs>>,
                    <<"order", JNum(Head(nodes).order)>>>>)>>>>
         \o AgentNodesClean(Tail(nodes))

\* nested_specs: the nodes that carry a resolved spec, in node order
NestedSpecs(nodes) == SelectSeq(nodes, LAMBDA n : n.spec # <<>>)

RECURSIVE write_component_folder(_, _, _, _, _)
RECURSIVE WriteNested(_, _, _, _, _)

\* for nkey, nested_spec in nested_specs.items(): write_component_folder(...)
WriteNested(nested, component_dir, nested_existing_dirs, node_key, w) ==
    IF nested = <<>> THEN w
    ELSE LET nkey == Split(Head(nested).key)
             full_node_key == IF KeyGiven(node_key) THEN node_key \o nkey ELSE nkey
             r == write_component_folder(Head(nested).spec[1], component_dir,
                                         nested_existing_dirs, full_node_key, w)
         IN  WriteNested(Tail(nested), component_dir, r.existing, node_key,
                         [fs |-> r.fs, map |-> r.map, reqOk |-> r.reqOk])

write_flow_folder(component, parent_dir, existing_dirs, node_key, w) ==
    LET dir_name == get_unique_dir_name(w.fs, parent_dir, component.name, existing_dirs)
        component_dir == parent_dir \o <<dir_name>>
        nodes_clean == JObj(FlowNodesClean(component.nodes))
        folder == [CommonFiles(component, w.reqOk) EXCEPT
                      !.nodes = IF Truthy(nodes_clean) THEN <<nodes_clean>> ELSE <<>>,
                      !.io_nodes = IF Truthy(component.io_nodes)
                                   THEN <<component.io_nodes>> ELSE <<>>]
        w1 == [fs |-> (component_dir :> folder) @@ w.fs,
               map |-> Register(w.map, node_key, component_dir),
               reqOk |-> w.reqOk]
        w2 == WriteNested(NestedSpecs(component.nodes), component_dir, {}, node_key, w1)
    IN  [entry |-> <<[component_id |-> component.id,
                      type |-> "flow",
                      dir |-> dir_name,
                      checksum |-> compute_checksum(Dumps(nodes_clean))]>>,
         existing |-> existing_dirs \cup {dir_name},
         fs |-> w2.fs,
         map |-> w2.map,
         reqOk |-> w.reqOk]

write_agent_folder(component, parent_dir, existing_dirs, node_key, w) ==
    LET dir_name == get_unique_dir_name(w.fs, parent_dir, component.name, existing_dirs)
        component_dir == parent_dir \o <<dir_name>>
        nodes_clean == JObj(AgentNodesClean(component.nodes))
        prompts == component.prompts
        settings_data ==
            JObj(<<<<"model", JStr(component.model)>>>>
                 \o (IF Truthy(component.settings)
                     THEN <<<<"settings", component.settings>>>> ELSE <<>>))
        folder == [CommonFiles(component, w.reqOk) EXCEPT
                      !.nodes = IF Truthy(nodes_clean) THEN <<nodes_clean>> ELSE <<>>,
                      !.prompts = IF /\ Truthy(prompts)
                                     /\ \/ Truthy(Get(prompts, "system", <<"null">>))
                                        \/ Truthy(Get(prompts, "user", <<"null">>))
                                  THEN <<prompts>> ELSE <<>>,
                      !.settings = IF component.model # "" \/ Truthy(component.settings)
                                   THEN <<settings_data>> ELSE <<>>]
        w1 == [fs |-> (component_dir :> folder) @@ w.fs,
               map |-> Register(w.map, node_key, component_dir),
               reqOk |-> w.reqOk]
        w2 == WriteNested(NestedSpecs(component.nodes), component_dir, {}, node_key, w1)
    IN  [entry |-> <<[component_id |-> component.id,
                      type |-> "agent",
                      dir |-> dir_name,
                      checksum |-> compute_checksum(Dumps(nodes_clean))]>>,
         existing |-> existing_dirs \cup {dir_name},
         fs |-> w2.fs,
         map |-> w2.map,
         reqOk |-> w.reqOk]

write_component_folder(component, parent_dir, existing_dirs, node_key, w) ==
    CASE component.resource = "action/v1" ->
            write_action_folder(component, parent_dir, existing_dirs, node_key, w)
      [] component.resource = "flow/v1" ->
            write_flow_folder(component, parent_dir, existing_dirs, node_key, w)
      [] component.resource = "agent/v1" ->
            write_agent_folder(component, parent_dir, existing_dirs, node_key, w)
      [] OTHER ->
            [entry |-> <<>>, existing |-> existing_dirs,
             fs |-> w.fs, map |-> w.map, reqOk |-> w.reqOk]

----------------------------------------------------------------------------
(* The remote projects the model pulls *)

NameS == <<"S">>
NameSpace == <<"S", " ">>

Position0 == JObj(<<<<"x", JNum(0)>>, <<"y", JNum(0)>>>>)
LoopOff == JObj(<<<<"enabled", JBool(FALSE)>>>>)

BaseComponent ==
    [id |-> "", resource |-> "", name |-> <<>>, intention |-> "",
     source |-> <<>>, pip |-> <<>>, readme |-> <<>>,
     inputs |-> EmptyObj, outputs |-> EmptyObj, nodes |-> <<>>,
     io_nodes |-> EmptyObj, prompts |-> EmptyObj, model |-> "",
     settings |-> EmptyObj, reqs |-> EmptyObj]

Leaf(id, name, source) ==
    [BaseComponent EXCEPT !.id = id, !.resource = "action/v1", !.name = name,
                          !.source = source]

Flow(id, name, nodes) ==
    [BaseComponent EXCEPT !.id = id, !.resource = "flow/v1", !.name = name,
                          !.nodes = nodes]

Agent(id, name, nodes, model, prompts) ==
    [BaseComponent EXCEPT !.id = id, !.resource = "agent/v1", !.name = name,
                          !.nodes = nodes, !.model = model, !.prompts = prompts]

\* a node of a node map, holding the resolved component (get_component, depth=999)
Node(key, component) ==
    [key |-> key, component_id |-> component.id, inputs |-> EmptyObj,
     position |-> Position0, loop |-> LoopOff, order |-> 0, spec |-> <<component>>]

Tool1 == Node("t1", Leaf("c3", NameS, <<"x">>))
Tool2 == Node("t2", Leaf("c4", NameSpace, <<"y">>))
Tool3 == Node("t3", Leaf("c5", NameS, <<"x">>))
ToolSlash == Node("t2", Leaf("c4", <<"/", " ">>, <<"y">>))
ToolS2 == Node("t2", Leaf("c4", <<"S", " ", " ", "2">>, <<"y">>))
FlowIo ==
    [Flow("c1", NameS, <<>>) EXCEPT
        !.io_nodes = JObj(<<<<"input", Position0>>, <<"output", Position0>>>>)]
SomePrompts == JObj(<<<<"system", JArr(<<JStr("be brief")>>)>>, <<"user", JArr(<<>>)>>>>)

FirstComponents ==
    { Leaf("c1", NameS, <<"x">>),
      Leaf("c1", NameS, <<"x", "\r">>),
      Leaf("c1", NameS, <<>>),
      Leaf("c1", TriggersName, <<"x">>),
      Flow("c1", NameS, <<>>),
      FlowIo,
      Flow("c1", NameS, <<Tool1>>),
      Flow("c1", NameS, <<Tool1, Tool2>>),
      Agent("c1", NameS, <<>>, "m", EmptyObj),
      Agent("c1", NameS, <<Tool1>>, "", EmptyObj),
      Agent("c1", NameS, <<Tool1, Tool2>>, "", SomePrompts),
      Flow("c1", NameS, <<Tool1, Tool2, Tool3>>),
      Flow("c1", NameS, <<Tool1, ToolSlash>>),
      Agent("c1", NameS, <<Tool1, ToolS2, Tool3>>, "m", EmptyObj) }

SecondComponent ==
    [Leaf("c2", NameSpace, <<"y">>) EXCEPT
        !.intention = "d",
        !.inputs = JObj(<<<<"a", JObj(<<<<"type", JStr("string")>>>>)>>>>),
        !.reqs = JObj(<<<<"context", JStr("ctx")>>>>)]

SecondNodes == { <<>>, <<Node("k2", SecondComponent)>> }

Modifier(m) == JArr(<<JStr(m)>>)

Project(nodes) ==
    [id |-> "p1", name |-> <<"P">>, intention |-> "pd",
     reqs |-> JObj(<<<<"context", JStr("pctx")>>>>),
     environment |-> <<>>,
     nodes |-> nodes,
     modifiers |-> << <<"k1/t1/zz", Modifier("m1")>>,
                      <<"zz/t1", Modifier("m2")>>,
                      <<"k2", JArr(<<>>)>>,
                      <<"k1/zz", Modifier("m3")>> >>]

\* the projects of the pull-only specification
RemoteProjects ==
    { Project(<<Node("k1", c)>> \o second) : c \in FirstComponents, second \in SecondNodes }

Second == <<Node("k2", SecondComponent)>>

\* the projects of the pull / edit / push specification
MainProjects ==
    { Project(<<Node("k1", Leaf("c1", NameS, <<"x">>))>>),
      Project(<<Node("k1", Leaf("c1", NameS, <<"x", "\r">>))>>),
      Project(<<Node("k1", Leaf("c1", NameS, <<>>))>> \o Second),
      Project(<<Node("k1", Leaf("c1", TriggersName, <<"x">>))>>),
      Project(<<Node("k1", FlowIo)>>),
      Project(<<Node("k1", Flow("c1", NameS, <<Tool1>>))>> \o Second),
      Project(<<Node("k1", Flow("c1", NameS, <<Tool1, Tool2>>))>>),
      Project(<<Node("k1", Agent("c1", NameS, <<>>, "m", EmptyObj))>>),
      Project(<<Node("k1", Agent("c1", NameS, <<Tool1>>, "", EmptyObj))>>),
      Project(<<Node("k1", Agent("c1", NameS, <<Tool1, Tool2>>, "", SomePrompts))>>) }

----------------------------------------------------------------------------
(* pull.py: pull_project *)

\* for node_key, node in spec["nodes"].items(): fetch and write the component
RECURSIVE PullNodes(_, _, _, _)
PullNodes(nodes, components_state, existing_dirs, w) ==
    IF nodes = <<>> THEN [state |-> components_state, fs |-> w.fs, map |-> w.map]
    ELSE LET node == Head(nodes) IN
         IF node.component_id = "" \/ node.spec = <<>>
         THEN PullNodes(Tail(nodes), components_state, existing_dirs, w)
         ELSE LET r == write_component_folder(node.spec[1], Root, existing_dirs,
                                              Split(node.key), w)
                  state1 == IF r.entry # <<>>
                            THEN Append(components_state, <<node.key, r.entry[1]>>)
                            ELSE components_state
              IN  PullNodes(Tail(nodes), state1, r.existing,
                            [fs |-> r.fs, map |-> r.map, reqOk |-> r.reqOk])

\* the folder distribute_modifiers finds for a path: <<>> or <<folder>>
RECURSIVE ParentMatch(_, _, _)
ParentMatch(map, parts, i) ==
    IF i = 0 THEN <<>>
    ELSE IF SubSeq(parts, 1, i) \in DOMAIN map
         THEN <<map[SubSeq(parts, 1, i)]>>
         ELSE ParentMatch(map, parts, i - 1)

\* mutant: only the exact path is looked up
TargetFolder_ExactOnly(map, modifier_path) ==
    LET parts == Split(modifier_path)
    IN  IF parts \in DOMAIN map THEN <<map[parts]>> ELSE <<>>

TargetFolder(map, modifier_path) ==
    LET parts == Split(modifier_path)
    IN  IF parts \in DOMAIN map THEN <<map[parts]>>
        ELSE ParentMatch(map, parts, Len(parts))

\* the .env text of a project: the header lines and one line per variable
generate_env_file(variables) ==
    <<"# Environment variables for Triform project", "">>
    \o (IF variables # <<>> THEN <<"# Variables">> \o variables \o <<"">> ELSE <<>>)

\* st_mtime of a file, and the file saved once more
Mtime(times, f) == IF f \in DOMAIN times THEN times[f] ELSE 0
Touched(times, f) == (f :> Mtime(times, f) + 1) @@ times

\* FileWatcher.__init__; position "off": watch() has not been called
NotWatching ==
    [pos |-> "off",
     last_mtimes |-> <<>>,     \* _last_mtimes
     pending_sync |-> FALSE,   \* _pending_sync
     sync_age |-> 0,           \* time.time() - _last_sync_time, capped
     current_age |-> 0,        \* time.time() - current_time, capped
     trigger_age |-> 0,        \* time since the last push was triggered, capped
     triggered |-> FALSE,      \* a push has been triggered
     failed |-> FALSE,         \* a triggered push has raised
     unpushed |-> FALSE]       \* a change was detected and no push triggered since

\* before the pull: nothing but the target directory, which may hold folders
InitWith(projects, trees) ==
    /\ remote \in [project : projects, created : {0}]
    /\ fs \in trees
    /\ config = <<>>
    /\ syncState = <<>>
    /\ nodeFolderMap = <<>>
    /\ pc = "init"
    /\ pushArgs = [force |-> FALSE, create_new |-> FALSE]
    /\ todo = <<>>
    /\ st = <<>>
    /\ checksumMap = <<>>
    /\ results = <<>>
    /\ calls = <<>>
    /\ found = <<>>
    /\ modTodo = <<>>
    /\ edits = 0
    /\ pushes = 0
    /\ watcher = NotWatching
    /\ mtime = <<>>
    /\ previous = [pull |-> <<>>, push |-> <<>>]

Init == InitWith(MainProjects, {(Root :> EmptyFolder)})

\* Remote API get_project: <<>> when the remote has no project of that id
get_project(project_id) ==
    IF project_id = remote.project.id THEN <<remote.project>> ELSE <<>>

\* target_dir.mkdir(parents=True, exist_ok=True)
mkdir(t) == IF Root \in DOMAIN t THEN t ELSE (Root :> EmptyFolder) @@ t

\* mutant: the target directory is made before the project is looked at
pull_target_Eager(t, project) == mkdir(t)

\* the tree when pull_project gets to write: "if not project: raise" comes
\* before the target directory is made
pull_target(t, project) == IF project = <<>> THEN t ELSE mkdir(t)

UnknownProject == "p0"

\* mutant: the folder names an earlier pull has taken stay taken
fresh_existing_dirs_Kept(earlier_map) ==
    {earlier_map[k][Len(earlier_map[k])] : k \in DOMAIN earlier_map}

\* existing_dirs = set(): a pull starts with no name taken, whatever an earlier
\* pull has left in the module
fresh_existing_dirs(earlier_map) == {}

\* pull_project up to the distribution of modifiers: the project's own files and
\* one folder per top-level node; or the failure when the project is not found
Pull(reqOks, ids) ==
    /\ pc = "init"
    /\ \E project_id \in ids :
         LET fetched == get_project(project_id)
             target == pull_target(fs, fetched)
         IN
         IF fetched = <<>>
         THEN /\ pc' = "not_found"
              /\ fs' = target
              /\ UNCHANGED <<nodeFolderMap, st, modTodo>>
         ELSE \E reqOk \in reqOks :
              LET project == fetched[1]
                  req_json == build_requirements_json(
                                  IF reqOk THEN project.reqs ELSE EmptyObj,
                                  project.intention)
                  root == [target[Root] EXCEPT
                              !.env = <<generate_env_file(project.environment)>>,
                              !.readme = <<DefaultReadme(project.name)>>,
                              !.requirements = IF Truthy(req_json) THEN <<req_json>> ELSE @]
                  r == PullNodes(project.nodes, <<>>, fresh_existing_dirs(nodeFolderMap),
                                 [fs |-> [target EXCEPT ![Root] = root], map |-> <<>>,
                                  reqOk |-> reqOk])
              IN  /\ fs' = r.fs
                  /\ nodeFolderMap' = r.map
                  /\ st' = r.state
                  /\ modTodo' = project.modifiers
                  /\ pc' = "modifiers"
    /\ UNCHANGED <<remote, config, syncState, pushArgs, todo, checksumMap, results,
                   calls, found, edits, pushes,
                   watcher, mtime, previous>>

\* a pull of the remote's project in which the Remote API answers every
\* requirements request
PullProject == Pull({TRUE}, {remote.project.id})

\* distribute_modifiers: one iteration of its loop
DistributeModifier ==
    /\ pc = "modifiers"
    /\ modTodo # <<>>
    /\ LET modifier_path == Head(modTodo)[1]
           modifier_list == Head(modTodo)[2]
           target_folder == TargetFolder(nodeFolderMap, modifier_path)
       IN  fs' = IF Truthy(modifier_list) /\ target_folder # <<>>
                    /\ target_folder[1] \in DOMAIN fs
                 THEN [fs EXCEPT ![target_folder[1]].modifiers = <<modifier_list>>]
                 ELSE fs
    /\ modTodo' = Tail(modTodo)
    /\ UNCHANGED <<remote, config, syncState, nodeFolderMap, pc, pushArgs, todo, st,
                   checksumMap, results, calls, found, edits, pushes,
                   watcher, mtime, previous>>

\* pull_project: saving the project config and the sync state
PullFinish ==
    /\ pc = "modifiers"
    /\ modTodo = <<>>
    /\ config' = <<[project_id |-> remote.project.id,
                    project_name |-> remote.project.name]>>
    /\ syncState' = <<[components |-> st]>>
    /\ st' = <<>>
    /\ pc' = "idle"
    /\ UNCHANGED <<remote, fs, nodeFolderMap, pushArgs, todo, checksumMap, results,
                   calls, found, modTodo, edits, pushes,
                   watcher, mtime, previous>>

----------------------------------------------------------------------------
(* push.py: reading a folder back *)

DunderInit == <<"_", "_", "i", "n", "i", "t", "_", "_", ".", "p", "y">>

\* the first *.py file that is not __init__.py: <<>> or <<file>>
find_source_file(folder) ==
    IF folder.py # <<>> /\ folder.py[1].name # DunderInit THEN folder.py ELSE <<>>

\* mutant: the flow files are looked at before the agent files
detect_component_type_FlowFirst(folder) ==
    IF find_source_file(folder) # <<>> THEN "action"
    ELSE IF folder.io_nodes # <<>> \/ folder.nodes # <<>> THEN "flow"
    ELSE IF folder.settings # <<>> \/ folder.prompts # <<>> THEN "agent"
    ELSE ""

\* "" stands for None
detect_component_type(folder) ==
    IF find_source_file(folder) # <<>> THEN "action"
    ELSE IF folder.settings # <<>> \/ folder.prompts # <<>> THEN "agent"
    ELSE IF folder.io_nodes # <<>> THEN "flow"
    ELSE IF folder.nodes # <<>> THEN "flow"
    ELSE ""

\* json.loads(file.read_text()) raises JSONDecodeError
LoadRaises(file) == file # <<>> /\ file[1] = Unparseable

\* the value read from an optional JSON file, or the default when it is absent
LoadOr(file, default) == IF file # <<>> THEN file[1] ELSE default

TextOr(file, default) == IF file # <<>> THEN ReadText(file[1]) ELSE default

Intention(folder) == Get(LoadOr(folder.requirements, EmptyObj), "description", JStr(""))

read_action_folder(folder) ==
    LET source_file == find_source_file(folder)
        source == IF source_file # <<>> THEN ReadText(source_file[1].text) ELSE <<>>
        io_data == LoadOr(folder.io, EmptyObj)
    IN  IF LoadRaises(folder.io) \/ LoadRaises(folder.requirements)
        THEN [raised |-> TRUE, spec |-> EmptyObj, checksum |-> <<>>]
        ELSE [raised |-> FALSE,
              spec |-> JObj(<<<<"source", JTxt(source)>>,
                              <<"requirements", JTxt(TextOr(folder.pip, <<>>))>>,
                              <<"readme", JTxt(TextOr(folder.readme, <<>>))>>,
                              <<"runtime", JStr("python-3.13")>>,
                              <<"inputs", Get(io_data, "inputs", EmptyObj)>>,
                              <<"outputs", Get(io_data, "outputs", EmptyObj)>>>>),
              checksum |-> compute_checksum(source)]

DefaultIoNodes == JObj(<<<<"input", Position0>>, <<"output", Position0>>>>)

read_flow_folder(folder) ==
    LET io_data == LoadOr(folder.io, EmptyObj)
        spec == JObj(<<<<"readme", JTxt(TextOr(folder.readme, <<>>))>>,
                       <<"nodes", LoadOr(folder.nodes, EmptyObj)>>,
                       <<"outputs", Get(io_data, "outputs", EmptyObj)>>,
                       <<"inputs", Get(io_data, "inputs", EmptyObj)>>,
                       <<"io_nodes", LoadOr(folder.io_nodes, DefaultIoNodes)>>>>)
    IN  IF \/ LoadRaises(folder.io) \/ LoadRaises(folder.nodes)
           \/ LoadRaises(folder.io_nodes) \/ LoadRaises(folder.requirements)
        THEN [raised |-> TRUE, spec |-> EmptyObj, checksum |-> <<>>]
        ELSE [raised |-> FALSE, spec |-> spec, checksum |-> compute_checksum(Dumps(spec))]

DefaultPrompts == JObj(<<<<"system", JArr(<<>>)>>, <<"user", JArr(<<>>)>>>>)
DefaultModel == JStr("gemma-3-27b-it")

read_agent_folder(folder) ==
    LET io_data == LoadOr(folder.io, EmptyObj)
        settings_data == LoadOr(folder.settings, EmptyObj)
        spec == JObj(<<<<"readme", JTxt(TextOr(folder.readme, <<>>))>>,
                       <<"model", Get(settings_data, "model", DefaultModel)>>,
                       <<"prompts", LoadOr(folder.prompts, DefaultPrompts)>>,
                       <<"settings", Get(settings_data, "settings", EmptyObj)>>,
                       <<"nodes", LoadOr(folder.nodes, EmptyObj)>>,
                       <<"inputs", Get(io_data, "inputs", EmptyObj)>>,
                       <<"outputs", Get(io_data, "outputs", EmptyObj)>>>>)
    IN  IF \/ LoadRaises(folder.io) \/ LoadRaises(folder.nodes)
           \/ LoadRaises(folder.prompts) \/ LoadRaises(folder.settings)
           \/ LoadRaises(folder.requirements)
        THEN [raised |-> TRUE, spec |-> EmptyObj, checksum |-> <<>>]
        ELSE [raised |-> FALSE, spec |-> spec, checksum |-> compute_checksum(Dumps(spec))]

read_component_folder(folder) ==
    LET comp_type == detect_component_type(folder)
    IN  CASE comp_type = "action" -> read_action_folder(folder)
          [] comp_type = "agent" -> read_agent_folder(folder)
          [] comp_type = "flow" -> read_flow_folder(folder)
          [] OTHER -> [raised |-> FALSE, spec |-> EmptyObj, checksum |-> <<>>]

\* mutant: the sidecar is never read
SidecarId_Blind(folder) == ""

\* read_triform_json and .get("id"): the id, "" when there is none
SidecarId(folder) ==
    IF folder.triform = <<>> \/ folder.triform[1] = Unparseable
       \/ ~Truthy(folder.triform[1])
    THEN ""
    ELSE Get(folder.triform[1], "id", JStr(""))[2]

----------------------------------------------------------------------------
(* push.py: find_all_components *)

MaxScanDepth == 10

Last(path) == path[Len(path)]

\* the sub-folders scan_dir takes as components
ScanItems(t, directory) ==
    {p \in Children(t, directory) :
        /\ Head(Last(p)) # "."
        /\ Last(p) # TriggersName
        /\ detect_component_type(t[p]) # ""}

Discovered(t, p) ==
    [path |-> p, component_id |-> SidecarId(t[p]),
     comp_type |-> detect_component_type(t[p])]

\* every list scan_dir can append, one per order in which iterdir() can yield
\* the entries of each directory
RECURSIVE scan_dir(_, _, _)
RECURSIVE ScanRest(_, _, _)
scan_dir(t, directory, depth) ==
    IF depth > MaxScanDepth THEN {<<>>}
    ELSE ScanRest(t, ScanItems(t, directory), depth)
ScanRest(t, items, depth) ==
    IF items = {} THEN {<<>>}
    ELSE UNION { { <<Discovered(t, p)>> \o nested \o rest :
                     nested \in scan_dir(t, p, depth + 1),
                     rest \in ScanRest(t, items \ {p}, depth) } : p \in items }

find_all_components(t) == scan_dir(t, Root, 0)

----------------------------------------------------------------------------
(* push.py: push_project *)

EmptyResults ==
    [updated |-> <<>>, created |-> <<>>, errors |-> <<>>, skipped |-> <<>>,
     new_components |-> <<>>]

AtPath(p) == <<"path", p>>
Label(l) == <<"label", l>>

Call(op, id, path, ok) == [op |-> op, id |-> id, path |-> path, ok |-> ok]

\* checksum_map[state["component_id"]] = state["checksum"], later entries win
ChecksumMap(components) ==
    [id \in {components[i][2].component_id : i \in 1..Len(components)} |->
        LET last == CHOOSE i \in 1..Len(components) :
                       /\ components[i][2].component_id = id
                       /\ \A j \in (i + 1)..Len(components) :
                             components[j][2].component_id # id
        IN  components[last][2].checksum]

\* mutant: an id without an entry gets one
StoreChecksum_Adding(components, component_id, new_checksum) ==
    LET hits == {i \in 1..Len(components) : components[i][2].component_id = component_id}
    IN  IF hits = {}
        THEN Append(components, <<component_id, [component_id |-> component_id,
                                                 type |-> "", dir |-> <<>>,
                                                 checksum |-> new_checksum]>>)
        ELSE LET first == CHOOSE i \in hits : \A j \in hits : i <= j
             IN  [components EXCEPT ![first][2].checksum = new_checksum]

\* the loop that stores the new checksum: the first entry with the id, if any
StoreChecksum(components, component_id, new_checksum) ==
    LET hits == {i \in 1..Len(components) : components[i][2].component_id = component_id}
    IN  IF hits = {} THEN components
        ELSE LET first == CHOOSE i \in hits : \A j \in hits : i <= j
             IN  [components EXCEPT ![first][2].checksum = new_checksum]

\* mutant: the checksum is stored whether or not the update went through
StoreIfUpdated_Always(components, updated, component_id, new_checksum) ==
    StoreChecksum(components, component_id, new_checksum)

\* "if updated:" around the loop that stores the checksum
StoreIfUpdated(components, updated, component_id, new_checksum) ==
    IF updated THEN StoreChecksum(components, component_id, new_checksum)
    ELSE components

\* mutant: a folder without an id is created whether or not create_new is set
Route_CreateUnasked(component_id, create_new) ==
    IF component_id # "" THEN "update" ELSE "create"

\* where push_project takes a discovered folder
Route(component_id, create_new) ==
    IF component_id # "" THEN "update"
    ELSE IF create_new THEN "create"
    ELSE "report"

\* mutant: an updated folder is listed under skipped as well
RecordPushed_Twice(res, path, unchanged, ok) ==
    IF ~unchanged /\ ok
    THEN [res EXCEPT !.updated = Append(@, AtPath(path)),
                     !.skipped = Append(@, AtPath(path))]
    ELSE IF ~unchanged
    THEN [res EXCEPT !.errors = Append(@, [what |-> AtPath(path), message |-> "error"])]
    ELSE [res EXCEPT !.skipped = Append(@, AtPath(path))]

\* mutant: a failed update is not recorded
RecordPushed_DropError(res, path, unchanged, ok) ==
    IF ~unchanged /\ ok
    THEN [res EXCEPT !.updated = Append(@, AtPath(path))]
    ELSE IF ~unchanged
    THEN res
    ELSE [res EXCEPT !.skipped = Append(@, AtPath(path))]

\* the result lists after push_component has answered for a folder
RecordPushed(res, path, unchanged, ok) ==
    IF ~unchanged /\ ok
    THEN [res EXCEPT !.updated = Append(@, AtPath(path))]
    ELSE IF ~unchanged
    THEN [res EXCEPT !.errors = Append(@, [what |-> AtPath(path), message |-> "error"])]
    ELSE [res EXCEPT !.skipped = Append(@, AtPath(path))]

\* the result lists after create_component has answered for a folder
\* mutant: a created folder is listed under updated
RecordCreated_AsUpdated(res, path, ok) ==
    IF ok
    THEN [res EXCEPT !.updated = Append(@, AtPath(path))]
    ELSE [res EXCEPT !.errors = Append(@, [what |-> AtPath(path),
                                          message |-> "Failed to create"])]

\* the result lists after create_component has answered for a folder
RecordCreated(res, path, ok) ==
    IF ok
    THEN [res EXCEPT !.created = Append(@, AtPath(path))]
    ELSE [res EXCEPT !.errors = Append(@, [what |-> AtPath(path),
                                          message |-> "Failed to create"])]

\* what a Remote API call may answer: it may fail while the push has failures left
Failed(log) == Cardinality({i \in 1..Len(log) : ~log[i].ok})
Answers(log) == IF Failed(log) < MaxFailures THEN BOOLEAN ELSE {TRUE}

\* mutant: the stored checksum is never taken for equal
Unchanged_Never(force, stored_checksum, new_checksum) == FALSE

\* push_component decides to skip the update
Unchanged(force, stored_checksum, new_checksum) ==
    ~force /\ stored_checksum # <<>> /\ new_checksum = stored_checksum[1]

\* mutant: the project metadata is sent before the identity file is looked at
update_project_Unchecked(project_config, metaOk) ==
    <<Call("update_project",
           IF project_config = <<>> THEN "" ELSE project_config[1].project_id,
           Root, metaOk)>>

\* the updateProject call of push_project: it comes after the identity file has
\* been loaded, so a push that found none has made no call
update_project(project_config, metaOk) ==
    IF project_config = <<>> THEN <<>>
    ELSE <<Call("update_project", project_config[1].project_id, Root, metaOk)>>

\* push_project up to the loop over the components: the identity file, project
\* metadata, project requirements, discovery, checksum map
PushBegin(forces, creates) ==
    /\ pc = "idle"
    /\ \E force \in forces, create_new \in creates :
          pushArgs' = [force |-> force, create_new |-> create_new]
    /\ IF config = <<>>
       THEN \* ProjectConfig.load returned None: ValueError, not a project directory
            /\ pc' = "not_a_project"
            /\ calls' = update_project(config, TRUE)
            /\ UNCHANGED <<todo, st, checksumMap, results, found>>
       ELSE IF LoadRaises(fs[Root].requirements)
       THEN \* json.loads raises before the first Remote API call
            /\ pc' = "raised"
            /\ UNCHANGED <<todo, st, checksumMap, results, calls, found>>
       ELSE \E metaOk \in Answers(<<>>), components \in find_all_components(fs) :
            \E reqOk \in Answers(<<Call("update_project", "", Root, metaOk)>>) :
            LET project_id == config[1].project_id
                req_data == LoadOr(fs[Root].requirements, EmptyObj)
                requirements == JObj(WithoutKey(req_data[2], "description"))
                sendReq == fs[Root].requirements # <<>> /\ Truthy(requirements)
                loaded == IF syncState = <<>> THEN <<>> ELSE syncState[1].components
            IN  /\ calls' = update_project(config, metaOk)
                             \o (IF sendReq
                                 THEN <<Call("update_project_requirements", project_id,
                                             Root, reqOk)>>
                                 ELSE <<>>)
                /\ results' =
                      [EmptyResults EXCEPT
                          !.updated = (IF metaOk THEN <<Label("project metadata")>> ELSE <<>>)
                                      \o (IF sendReq /\ reqOk
                                          THEN <<Label("requirements.json")>> ELSE <<>>),
                          !.errors = (IF metaOk THEN <<>>
                                      ELSE <<[what |-> Label("project metadata"),
                                              message |-> "error"]>>)
                                     \o (IF sendReq /\ ~reqOk
                                         THEN <<[what |-> Label("requirements.json"),
                                                 message |-> "error"]>>
                                         ELSE <<>>)]
                /\ todo' = components
                /\ found' = components
                /\ st' = loaded
                /\ checksumMap' = ChecksumMap(loaded)
                /\ pc' = "pushing"
    /\ UNCHANGED <<remote, fs, config, syncState, nodeFolderMap, modTodo, edits, mtime, previous>>

\* push_project called by the user, with any force and create_new
PushStart ==
    /\ pushes < MaxPushes
    /\ pushes' = pushes + 1
    /\ PushBegin(BOOLEAN, BOOLEAN)
    /\ UNCHANGED watcher

NewIds == <<"n1", "n2", "n3", "n4", "n5", "n6", "n7", "n8">>

\* one iteration of the loop over the discovered components
PushFolder ==
    /\ pc = "pushing"
    /\ todo # <<>>
    /\ LET component_path == Head(todo).path
           component_id == Head(todo).component_id
           comp_type == Head(todo).comp_type
           folder == fs[component_path]
           read == read_component_folder(folder)
           stored_checksum == IF component_id \in DOMAIN checksumMap
                              THEN <<checksumMap[component_id]>> ELSE <<>>
           comp_requirements ==
               JObj(WithoutKey(LoadOr(folder.requirements, EmptyObj)[2], "description"))
           sendReq == folder.requirements # <<>> /\ Truthy(comp_requirements)
           route == Route(component_id, pushArgs.create_new)
       IN
       IF route # "report" /\ read.raised
       THEN \* json.loads raised inside read_component_folder: push_project raises
            /\ pc' = "raised"
            /\ UNCHANGED <<remote, fs, todo, st, results, calls, mtime>>
       ELSE IF route = "update"
       THEN \E ok \in Answers(calls) :
            LET unchanged == Unchanged(pushArgs.force, stored_checksum, read.checksum)
                updated == ~unchanged /\ ok
                pushed == calls \o (IF unchanged THEN <<>>
                                    ELSE <<Call("update_component", component_id,
                                                component_path, ok)>>)
            IN  \* the requirements call is made whatever push_component answered;
                \* its APIError is swallowed (except APIError: pass)
                \E reqOk \in (IF sendReq THEN Answers(pushed) ELSE {TRUE}) :
                /\ calls' = pushed
                            \o (IF sendReq
                                THEN <<Call("update_component_requirements", component_id,
                                            component_path, reqOk)>>
                                ELSE <<>>)
                /\ results' = RecordPushed(results, component_path, unchanged, ok)
                /\ st' = StoreIfUpdated(st, updated, component_id, read.checksum)
                /\ todo' = Tail(todo)
                /\ UNCHANGED <<remote, fs, pc, mtime>>
       ELSE IF route = "create"
       THEN \E ok \in Answers(calls) :
            LET new_id == NewIds[remote.created + 1]
            IN  /\ calls' = Append(calls, Call("create_component", "", component_path, ok))
                /\ remote' = IF ok THEN [remote EXCEPT !.created = @ + 1] ELSE remote
                /\ fs' = IF ok
                         THEN [fs EXCEPT ![component_path].triform =
                                  <<JObj(<<<<"id", JStr(new_id)>>,
                                           <<"type", JStr(comp_type)>>>>)>>]
                         ELSE fs
                /\ mtime' = IF ok THEN Touched(mtime, <<component_path, "triform">>)
                            ELSE mtime
                /\ results' = RecordCreated(results, component_path, ok)
                /\ todo' = Tail(todo)
                /\ UNCHANGED <<st, pc>>
       ELSE /\ results' = [results EXCEPT
                              !.new_components = Append(@, AtPath(component_path))]
            /\ todo' = Tail(todo)
            /\ UNCHANGED <<remote, fs, st, calls, pc, mtime>>
    /\ UNCHANGED <<config, syncState, nodeFolderMap, pushArgs, checksumMap, found,
                   modTodo, edits, pushes,
                   watcher, previous>>

\* after the loop: the sync state is saved and the results are returned
PushFinish ==
    /\ pc = "pushing"
    /\ todo = <<>>
    /\ syncState' = <<[components |-> st]>>
    /\ pc' = "returned"
    /\ UNCHANGED <<remote, fs, config, nodeFolderMap, pushArgs, todo, st, checksumMap,
                   results, calls, found, modTodo, edits, pushes,
                   watcher, mtime, previous>>

\* what a push that is over has done, for comparing the next push with it
Noted ==
    [force |-> pushArgs.force,
     outcome |-> pc,
     edits |-> edits,
     skipped |-> IF pc = "returned"
                 THEN {results.skipped[i][2] : i \in 1..Len(results.skipped)} ELSE {},
     failed |-> {calls[i].path :
                    i \in {k \in 1..Len(calls) : /\ calls[k].op = "update_component"
                                                  /\ ~calls[k].ok}}]

\* push_project has returned its results or raised: its locals are gone
Return(noted) ==
    /\ pc \in {"returned", "raised", "not_a_project"}
    /\ pc' = "idle"
    /\ pushArgs' = [force |-> FALSE, create_new |-> FALSE]
    /\ todo' = <<>>
    /\ st' = <<>>
    /\ checksumMap' = <<>>
    /\ results' = <<>>
    /\ calls' = <<>>
    /\ found' = <<>>
    /\ previous' = IF noted THEN [previous EXCEPT !.push = <<Noted>>] ELSE previous
    /\ UNCHANGED <<remote, fs, config, syncState, nodeFolderMap, modTodo, edits, pushes,
                   watcher, mtime>>

PushReturn == Return(FALSE)

\* the same, with the push that is over kept for comparison
PushReturnNoted == Return(TRUE)

----------------------------------------------------------------------------
(* Local edits between a pull and a push *)

ComponentFolders == {p \in DOMAIN fs : p # Root}

OtherChar(c) == IF c = "x" THEN "y" ELSE "x"

\* one character of a leaf's source file is changed
EditSource ==
    /\ pc = "idle"
    /\ edits < MaxEdits
    /\ \E p \in ComponentFolders :
         /\ fs[p].py # <<>>
         /\ \E i \in 1..Len(fs[p].py[1].text) :
              fs' = [fs EXCEPT ![p].py[1].text[i] = OtherChar(@)]
         /\ mtime' = Touched(mtime, <<p, "py">>)
    /\ edits' = edits + 1
    /\ UNCHANGED <<remote, config, syncState, nodeFolderMap, pc, pushArgs, todo, st,
                   checksumMap, results, calls, found, modTodo, pushes,
                   watcher, previous>>

Reverse(s) == [i \in 1..Len(s) |-> s[Len(s) + 1 - i]]

\* nodes.json is rewritten with the same keys and values in another key order:
\* the order of the nodes, or the order of the keys inside the first node
ReorderNodes ==
    /\ pc = "idle"
    /\ edits < MaxEdits
    /\ \E p \in ComponentFolders :
         /\ fs[p].nodes # <<>>
         /\ fs[p].nodes[1] # Unparseable
         /\ LET pairs == fs[p].nodes[1][2]
            IN  \/ /\ Len(pairs) >= 2
                   /\ fs' = [fs EXCEPT ![p].nodes = <<JObj(Reverse(pairs))>>]
                \/ /\ Len(pairs) >= 1
                   /\ fs' = [fs EXCEPT ![p].nodes =
                               <<JObj([pairs EXCEPT ![1][2] = JObj(Reverse(@[2]))])>>]
         /\ mtime' = Touched(mtime, <<p, "nodes">>)
    /\ edits' = edits + 1
    /\ UNCHANGED <<remote, config, syncState, nodeFolderMap, pc, pushArgs, todo, st,
                   checksumMap, results, calls, found, modTodo, pushes,
                   watcher, previous>>

\* the remote component a pulled folder was written from
RECURSIVE ComponentAt(_, _)
ComponentAt(nodes, keys) ==
    LET i == CHOOSE i \in 1..Len(nodes) : nodes[i].key = Head(keys)
    IN  IF Len(keys) = 1 THEN nodes[i].spec[1]
        ELSE ComponentAt(nodes[i].spec[1].nodes, Tail(keys))

TypeOf(resource) ==
    CASE resource = "action/v1" -> "action"
      [] resource = "flow/v1" -> "flow"
      [] OTHER -> "agent"

\* an identity sidecar .triform.json is put into a pulled folder, naming the
\* component the folder was pulled from
TagFolder ==
    /\ pc = "idle"
    /\ edits < MaxEdits
    /\ \E k \in DOMAIN nodeFolderMap :
         LET p == nodeFolderMap[k]
             c == ComponentAt(remote.project.nodes, k)
         IN  /\ fs[p].triform = <<>>
             /\ fs' = [fs EXCEPT ![p].triform =
                          <<JObj(<<<<"id", JStr(c.id)>>,
                                   <<"type", JStr(TypeOf(c.resource))>>>>)>>]
             /\ mtime' = Touched(mtime, <<p, "triform">>)
    /\ edits' = edits + 1
    /\ UNCHANGED <<remote, config, syncState, nodeFolderMap, pc, pushArgs, todo, st,
                   checksumMap, results, calls, found, modTodo, pushes,
                   watcher, previous>>

\* a structured file that a folder holds is saved with content that is not JSON
CorruptFile ==
    /\ pc = "idle"
    /\ edits < MaxEdits
    /\ \E p \in DOMAIN fs :
         \/ /\ fs[p].io \notin {<<>>, <<Unparseable>>}
            /\ fs' = [fs EXCEPT ![p].io = <<Unparseable>>]
            /\ mtime' = Touched(mtime, <<p, "io">>)
         \/ /\ fs[p].nodes \notin {<<>>, <<Unparseable>>}
            /\ fs' = [fs EXCEPT ![p].nodes = <<Unparseable>>]
            /\ mtime' = Touched(mtime, <<p, "nodes">>)
         \/ /\ fs[p].io_nodes \notin {<<>>, <<Unparseable>>}
            /\ fs' = [fs EXCEPT ![p].io_nodes = <<Unparseable>>]
            /\ mtime' = Touched(mtime, <<p, "io_nodes">>)
         \/ /\ fs[p].prompts \notin {<<>>, <<Unparseable>>}
            /\ fs' = [fs EXCEPT ![p].prompts = <<Unparseable>>]
            /\ mtime' = Touched(mtime, <<p, "prompts">>)
         \/ /\ fs[p].settings \notin {<<>>, <<Unparseable>>}
            /\ fs' = [fs EXCEPT ![p].settings = <<Unparseable>>]
            /\ mtime' = Touched(mtime, <<p, "settings">>)
         \/ /\ fs[p].requirements \notin {<<>>, <<Unparseable>>}
            /\ fs' = [fs EXCEPT ![p].requirements = <<Unparseable>>]
            /\ mtime' = Touched(mtime, <<p, "requirements">>)
    /\ edits' = edits + 1
    /\ UNCHANGED <<remote, config, syncState, nodeFolderMap, pc, pushArgs, todo, st,
                   checksumMap, results, calls, found, modTodo, pushes,
                   watcher, previous>>

Next ==
    \/ PullProject \/ DistributeModifier \/ PullFinish
    \/ PushStart \/ PushFolder \/ PushFinish \/ PushReturn
    \/ EditSource \/ ReorderNodes \/ TagFolder \/ CorruptFile

Spec == Init /\ [][Next]_vars

----------------------------------------------------------------------------
(* Pulls alone: more projects, a target directory that may not be empty, a     *)
(* Remote API that may fail to answer the requirements requests               *)

PullAny == Pull(BOOLEAN, {remote.project.id, UnknownProject})

InitPull ==
    InitWith(RemoteProjects,
             { <<>>,
               (Root :> EmptyFolder),
               (Root :> EmptyFolder) @@ (<<NameS>> :> EmptyFolder) })

NextPull == PullAny \/ DistributeModifier \/ PullFinish

SpecPull == InitPull /\ [][NextPull]_vars

----------------------------------------------------------------------------
(* The same project pulled twice, each time into a fresh target directory *)

\* pull_project is called once more, with another target directory that is
\* empty or does not exist yet; the module's node-to-folder map is what the
\* first pull has left
PullAgain ==
    /\ pc = "idle"
    /\ previous.pull = <<>>
    /\ previous' = [previous EXCEPT
                       !.pull = <<[fs |-> fs, config |-> config,
                                   components |-> syncState[1].components]>>]
    /\ fs' \in {<<>>, (Root :> EmptyFolder)}
    /\ config' = <<>>
    /\ syncState' = <<>>
    /\ mtime' = <<>>
    /\ pc' = "init"
    /\ UNCHANGED <<remote, nodeFolderMap, pushArgs, todo, st, checksumMap, results,
                   calls, found, modTodo, edits, pushes, watcher>>

InitRepull == InitWith(RemoteProjects, {<<>>, (Root :> EmptyFolder)})

NextRepull == PullProject \/ DistributeModifier \/ PullFinish \/ PullAgain

SpecRepull == InitRepull /\ [][NextRepull]_vars

----------------------------------------------------------------------------
(* Push after push: a pull, sidecars put into pulled folders, source edits,   *)
(* and pushes of which the one before is remembered                           *)

\* a project of one leaf, and one of a flow with a leaf inside
InitRepush ==
    InitWith({ Project(<<Node("k1", Leaf("c1", NameS, <<"x">>))>>),
               Project(<<Node("k1", Flow("c1", NameS, <<Tool1>>))>>) },
             {(Root :> EmptyFolder)})

NextRepush ==
    \/ PullProject \/ DistributeModifier \/ PullFinish
    \/ TagFolder \/ EditSource
    \/ PushStart \/ PushFolder \/ PushFinish \/ PushReturnNoted

SpecRepush == InitRepush /\ [][NextRepush]_vars

----------------------------------------------------------------------------
(* Pushes alone, from directories made by hand: every combination of the      *)
(* files that decide a folder's kind, folders inside a plain folder, a chain  *)
(* of folders deeper than the scan goes, and a directory that is no project   *)

\* the project directories the pushes start from
ScanTrees ==
    LET SourceFile == [name |-> <<"s", ".", "p", "y">>, text |-> <<"x">>]
        InitFile == [name |-> DunderInit, text |-> <<>>]
        \* the content write_triform_json gives a sidecar
        Sidecar(component_id, comp_type) ==
            JObj(<<<<"id", JStr(component_id)>>, <<"type", JStr(comp_type)>>>>)
        \* every combination of the files that decide the kind of a folder
        MarkerFolders ==
            { [EmptyFolder EXCEPT !.py = py, !.settings = settings,
                                  !.prompts = prompts, !.io_nodes = io_nodes,
                                  !.nodes = nodes] :
                py \in {<<>>, <<SourceFile>>, <<InitFile>>},
                settings \in {<<>>, <<EmptyObj>>},
                prompts \in {<<>>, <<SomePrompts>>},
                io_nodes \in {<<>>, <<DefaultIoNodes>>},
                nodes \in {<<>>, <<EmptyObj>>} }
        KindTrees ==
            { (Root :> EmptyFolder) @@ (<<NameS>> :> folder) : folder \in MarkerFolders }
        LeafFolder == [EmptyFolder EXCEPT !.py = <<SourceFile>>]
        KnownLeafFolder == [LeafFolder EXCEPT !.triform = <<Sidecar("c1", "action")>>]
        GroupName == <<"g">>
        HiddenName == <<".", "g">>
        \* a leaf folder inside a folder that is no component itself
        GroupTree ==
            (Root :> EmptyFolder) @@ (<<GroupName>> :> EmptyFolder)
            @@ (<<GroupName, NameS>> :> KnownLeafFolder)
        \* leaf folders the scan is meant to pass over, beside one it is meant
        \* to find
        HiddenTree ==
            (Root :> EmptyFolder) @@ (<<HiddenName>> :> LeafFolder)
            @@ (<<TriggersName>> :> LeafFolder) @@ (<<NameS>> :> KnownLeafFolder)
        \* flow folders one inside the other, two levels more than scan_dir
        \* goes down
        DeepLevels == MaxScanDepth + 2
        LevelIds == <<"d1", "d2", "d3", "d4", "d5", "d6", "d7", "d8", "d9", "d10",
                      "d11", "d12", "d13">>
        Deepest == [i \in 1..DeepLevels |-> NameS]
        DeepTree ==
            [p \in {SubSeq(Deepest, 1, k) : k \in 0..DeepLevels} |->
                IF p = Root THEN EmptyFolder
                ELSE [EmptyFolder EXCEPT
                         !.nodes = <<EmptyObj>>,
                         !.triform = <<Sidecar(LevelIds[Len(p)], "flow")>>]]
    IN  KindTrees \cup {GroupTree, HiddenTree, DeepTree}

InitScan ==
    /\ remote \in [project : {Project(<<>>)}, created : {0}]
    /\ fs \in ScanTrees
    /\ config \in {<<>>, <<[project_id |-> "p1", project_name |-> <<"P">>]>>}
    /\ syncState = IF config = <<>> THEN <<>> ELSE <<[components |-> <<>>]>>
    /\ nodeFolderMap = <<>>
    /\ pc = "idle"
    /\ pushArgs = [force |-> FALSE, create_new |-> FALSE]
    /\ todo = <<>>
    /\ st = <<>>
    /\ checksumMap = <<>>
    /\ results = <<>>
    /\ calls = <<>>
    /\ found = <<>>
    /\ modTodo = <<>>
    /\ edits = 0
    /\ pushes = 0
    /\ watcher = NotWatching
    /\ mtime = <<>>
    /\ previous = [pull |-> <<>>, push |-> <<>>]

NextScan == PushStart \/ PushFolder \/ PushFinish \/ PushReturn

SpecScan == InitScan /\ [][NextScan]_vars

----------------------------------------------------------------------------
(* watch.py: FileWatcher.  Time is counted in ticks of the poll sleep          *)
(* (time.sleep(0.5)); the clock enters the code only through the difference    *)
(* current_time - _last_sync_time, which is kept capped at the debounce.       *)

DebounceTicks == 2   \* debounce_seconds = 1.0, in ticks of 0.5 s

\* the files of a folder, by the name pattern that finds them
FileNames == DOMAIN EmptyFolder

\* "*.json" in the triggers folder
TriggerPatterns == {"io", "nodes", "io_nodes", "prompts", "settings", "requirements",
                    "modifiers", "triform", "meta"}

\* the patterns tracked next to a meta.json
ComponentPatterns == {"py", "readme", "requirements", "pip", "io", "nodes", "io_nodes",
                      "prompts", "settings", "modifiers"}

\* the patterns tracked in the project directory
ProjectPatterns == {"env", "readme", "requirements"}

FilesOf(t, p, patterns) == {<<p, f>> : f \in {g \in patterns : t[p][g] # <<>>}}

\* FileWatcher._get_tracked_files, as a set
get_tracked_files(t) ==
    FilesOf(t, Root, ProjectPatterns)
    \cup (IF <<TriggersName>> \in DOMAIN t
          THEN FilesOf(t, <<TriggersName>>, TriggerPatterns) ELSE {})
    \cup UNION { FilesOf(t, p, ComponentPatterns \cup {"meta"}) :
                   p \in {q \in DOMAIN t : t[q].meta # <<>>} }

\* mutant: every pass of the loop finds a change
check_changes_Always(t, times, last_mtimes) ==
    LET files == get_tracked_files(t)
    IN  [changed |-> TRUE,
         last_mtimes |-> [f \in files \cup DOMAIN last_mtimes |->
                             IF f \in files THEN Mtime(times, f) ELSE last_mtimes[f]]]

\* FileWatcher._check_changes: [changed, last_mtimes]
check_changes(t, times, last_mtimes) ==
    LET files == get_tracked_files(t)
    IN  [changed |-> \E f \in files \cap DOMAIN last_mtimes :
                         last_mtimes[f] # Mtime(times, f),
         last_mtimes |-> [f \in files \cup DOMAIN last_mtimes |->
                             IF f \in files THEN Mtime(times, f) ELSE last_mtimes[f]]]

Capped(n) == IF n > DebounceTicks THEN DebounceTicks ELSE n

\* mutant: every detected change is synced at once
Debounced_Always(age) == TRUE

\* current_time - self._last_sync_time >= self.debounce_seconds
Debounced(age) == age >= DebounceTicks

\* mutant: an exception of push_project leaves the watch loop
do_sync_Uncaught(outcome) ==
    IF outcome = "returned" THEN "sleeping"
    ELSE IF outcome = "interrupted" THEN "stopped"
    ELSE "crashed"

\* where the watcher is after _do_sync: "except Exception" catches what
\* push_project raises, but not KeyboardInterrupt, which ends watch()
do_sync(outcome) ==
    IF outcome = "interrupted" THEN "stopped" ELSE "sleeping"

\* FileWatcher.watch up to its loop
WatchStart ==
    /\ watcher.pos = "off"
    /\ pc \in {"init", "idle"}
    /\ IF config = <<>>
       THEN watcher' = [watcher EXCEPT !.pos = "raised"]
       ELSE watcher' = [watcher EXCEPT
                           !.pos = "polling",
                           !.sync_age = DebounceTicks,   \* _last_sync_time = 0.0
                           !.last_mtimes = check_changes(fs, mtime, <<>>).last_mtimes]
    /\ UNCHANGED <<remote, fs, config, syncState, nodeFolderMap, pc, pushArgs, todo, st,
                   checksumMap, results, calls, found, modTodo, edits, pushes, mtime, previous>>

\* one pass of the loop up to the sleep, or into push_project when a change is
\* detected and the debounce has passed
Poll ==
    /\ watcher.pos = "polling"
    /\ pc = "idle"
    /\ LET check == check_changes(fs, mtime, watcher.last_mtimes)
       IN  IF check.changed /\ Debounced(watcher.sync_age)
           THEN /\ PushBegin({FALSE}, {FALSE})
                /\ watcher' = [watcher EXCEPT
                                  !.pos = "syncing",
                                  !.last_mtimes = check.last_mtimes,
                                  !.current_age = 0,
                                  !.trigger_age = 0,
                                  !.triggered = TRUE,
                                  !.unpushed = FALSE]
                /\ pushes' = IF pushes <= MaxEdits THEN pushes + 1 ELSE pushes
           ELSE /\ watcher' = [watcher EXCEPT
                                  !.pos = "sleeping",
                                  !.last_mtimes = check.last_mtimes,
                                  !.unpushed = @ \/ check.changed]
                /\ UNCHANGED <<remote, fs, config, syncState, nodeFolderMap, pc, pushArgs,
                               todo, st, checksumMap, results, calls, found, modTodo,
                               edits, pushes, mtime, previous>>

Aged(w, d) == [w EXCEPT !.sync_age = Capped(@ + d),
                        !.current_age = Capped(@ + d),
                        !.trigger_age = Capped(@ + d)]

\* time.sleep(0.5): at least one tick passes
Sleep ==
    /\ watcher.pos = "sleeping"
    /\ \E d \in 1..DebounceTicks : watcher' = [Aged(watcher, d) EXCEPT !.pos = "polling"]
    /\ UNCHANGED <<remote, fs, config, syncState, nodeFolderMap, pc, pushArgs, todo, st,
                   checksumMap, results, calls, found, modTodo, edits, pushes, mtime, previous>>

\* time passes while push_project runs
Tick ==
    /\ watcher.pos = "syncing"
    /\ watcher' = Aged(watcher, 1)
    /\ watcher' # watcher
    /\ UNCHANGED <<remote, fs, config, syncState, nodeFolderMap, pc, pushArgs, todo, st,
                   checksumMap, results, calls, found, modTodo, edits, pushes, mtime, previous>>

\* push_project has returned or raised inside _do_sync; the loop goes on with
\* self._last_sync_time = current_time
SyncDone ==
    /\ watcher.pos = "syncing"
    /\ pc \in {"returned", "raised"}
    /\ watcher' = [watcher EXCEPT
                      !.pos = do_sync(pc),
                      !.sync_age = watcher.current_age,
                      !.failed = @ \/ pc = "raised"]
    /\ pc' = "idle"
    /\ pushArgs' = [force |-> FALSE, create_new |-> FALSE]
    /\ todo' = <<>>
    /\ st' = <<>>
    /\ checksumMap' = <<>>
    /\ results' = <<>>
    /\ calls' = <<>>
    /\ found' = <<>>
    /\ UNCHANGED <<remote, fs, config, syncState, nodeFolderMap, modTodo, edits, pushes,
                   mtime, previous>>

\* Ctrl+C: KeyboardInterrupt is raised wherever the main thread is, in
\* push_project too; watch() catches it and returns
Cancel ==
    /\ watcher.pos \in {"polling", "sleeping", "syncing"}
    /\ LET outcome == IF pc = "pushing" THEN "interrupted" ELSE pc
       IN  /\ pc' = outcome
           /\ watcher' = [watcher EXCEPT
                             !.pos = IF outcome = "interrupted"
                                     THEN do_sync(outcome) ELSE "stopped"]
    /\ UNCHANGED <<remote, fs, config, syncState, nodeFolderMap, pushArgs, todo, st,
                   checksumMap, results, calls, found, modTodo, edits, pushes, mtime, previous>>

\* a file is saved again with the content it has
TouchFile ==
    /\ pc \in {"idle", "pushing"}
    /\ edits < MaxEdits
    /\ \E p \in DOMAIN fs, f \in FileNames :
         /\ fs[p][f] # <<>>
         /\ mtime' = Touched(mtime, <<p, f>>)
    /\ edits' = edits + 1
    /\ UNCHANGED <<remote, fs, config, syncState, nodeFolderMap, pc, pushArgs, todo, st,
                   checksumMap, results, calls, found, modTodo, pushes, watcher, previous>>

\* a file that matches a tracked pattern is created: a meta.json, or a
\* pip_requirements.txt
CreateFile ==
    /\ pc \in {"idle", "pushing"}
    /\ edits < MaxEdits
    /\ \E p \in DOMAIN fs :
         \/ /\ fs[p].meta = <<>>
            /\ fs' = [fs EXCEPT ![p].meta = <<EmptyObj>>]
            /\ mtime' = Touched(mtime, <<p, "meta">>)
         \/ /\ p # Root
            /\ fs[p].pip = <<>>
            /\ fs' = [fs EXCEPT ![p].pip = <<<<"r">>>>]
            /\ mtime' = Touched(mtime, <<p, "pip">>)
    /\ edits' = edits + 1
    /\ UNCHANGED <<remote, config, syncState, nodeFolderMap, pc, pushArgs, todo, st,
                   checksumMap, results, calls, found, modTodo, pushes, watcher, previous>>

\* the projects of the watch specification
WatchProjects ==
    { Project(<<Node("k1", Leaf("c1", NameS, <<"x">>))>>),
      Project(<<Node("k1", Flow("c1", NameS, <<Tool1>>))>> \o Second) }

InitWatch == InitWith(WatchProjects, {(Root :> EmptyFolder)})

NextWatch ==
    \/ PullProject \/ DistributeModifier \/ PullFinish
    \/ WatchStart \/ Poll \/ Sleep \/ Tick \/ SyncDone \/ Cancel
    \/ PushFolder \/ PushFinish
    \/ TouchFile \/ CreateFile \/ CorruptFile

SpecWatch == InitWatch /\ [][NextWatch]_vars

\* the loop keeps running: the watcher's own steps are taken when they can be
SpecWatchLive ==
    /\ SpecWatch
    /\ WF_vars(Poll) /\ WF_vars(Sleep) /\ WF_vars(SyncDone)
    /\ WF_vars(PushFolder) /\ WF_vars(PushFinish)

----------------------------------------------------------------------------
(* Properties *)

Range(seq) == {seq[i] : i \in 1..Len(seq)}

\* the folders the pull wrote, and the component each was written from
PulledKeys == DOMAIN nodeFolderMap
PulledFolders == {nodeFolderMap[k] : k \in PulledKeys}
PulledFrom(k) == ComponentAt(remote.project.nodes, k)

ComponentOps == {"update_component", "create_component"}

\* some structured file of the tree is not parseable
SomeUnparseable == \E p \in DOMAIN fs, f \in JsonFiles : fs[p][f] = <<Unparseable>>

\* C1: a pull followed at once by a push with force=false and no local edit
\* returns updated=[] and created=[], with every folder the pull wrote under
\* skipped.
RoundTripStable ==
    (pc = "returned" /\ edits = 0 /\ pushes = 1 /\ ~pushArgs.force) =>
        /\ results.updated = <<>>
        /\ results.created = <<>>
        /\ \A p \in PulledFolders : AtPath(p) \in Range(results.skipped)

\* C2: for a folder the pull has just written and nobody edited, the checksum
\* push computes from the folder equals the checksum the pull stored for it.
PullPushChecksumsAgree ==
    (pc = "idle" /\ edits = 0 /\ pushes = 0) =>
        \A i \in 1..Len(syncState[1].components) :
            LET entry == syncState[1].components[i][2]
            IN  read_component_folder(fs[<<entry.dir>>]).checksum = entry.checksum

\* C3: after a pull, a leaf folder whose source file differs from the pulled
\* source in a character has another checksum, and the next push lists it under
\* updated and calls update_component for its remote id (no Remote API call
\* failing).
SourceEditIsPushed ==
    (pc = "returned" /\ pushes = 1 /\ Failed(calls) = 0) =>
        \A k \in PulledKeys :
            LET p == nodeFolderMap[k]
                c == PulledFrom(k)
            IN  (/\ c.resource = "action/v1"
                 /\ fs[p].py # <<>>
                 /\ fs[p].py[1].text # c.source) =>
                    /\ read_component_folder(fs[p]).checksum # compute_checksum(c.source)
                    /\ AtPath(p) \in Range(results.updated)
                    /\ \E i \in 1..Len(calls) :
                          calls[i].op = "update_component" /\ calls[i].id = c.id

\* C4: rewriting nodes.json with the same keys and values in another key order
\* leaves the checksum push computes for every folder as it was.
KeyOrderKeepsChecksum ==
    [][ReorderNodes =>
          \A p \in DOMAIN fs :
              read_component_folder(fs'[p]).checksum
                  = read_component_folder(fs[p]).checksum]_vars

Reachable(t, p) ==
    /\ p \in DOMAIN t \ {Root}
    /\ Len(p) <= MaxScanDepth + 1
    /\ \A i \in 1..Len(p) :
          LET q == SubSeq(p, 1, i)
          IN  /\ Head(Last(q)) # "."
              /\ Last(q) # TriggersName
              /\ detect_component_type(t[q]) # ""

----------------------------------------------------------------------------
(* Properties of the pull *)

\* the parents the pull wrote children into: the root and every composite
ParentKeys == {<<>>} \cup {k \in PulledKeys : PulledFrom(k).nodes # <<>>}
ParentFolder(k) == IF k = <<>> THEN Root ELSE nodeFolderMap[k]
KnownResources == {"action/v1", "flow/v1", "agent/v1"}

\* the children written into a parent, in traversal order
KidsOf(k) ==
    SelectSeq(IF k = <<>> THEN remote.project.nodes ELSE PulledFrom(k).nodes,
              LAMBDA n : n.spec # <<>> /\ n.spec[1].resource \in KnownResources)
KidFolder(k, n) == nodeFolderMap[k \o Split(n.key)]

\* every sub-folder of the parent was written by this pull
InitiallyEmpty(k) == Children(fs, ParentFolder(k)) \subseteq PulledFolders

Suffixed(S, i) == IF i = 1 THEN S ELSE S \o <<" ">> \o Str(i)

\* C6: n siblings whose names sanitize to the same S, written into an initially
\* empty parent, get S, "S 2", ..., "S n" in traversal order; the directories
\* assigned within one parent are pairwise distinct; the scope is the parent.
CollisionResolution ==
    pc \in {"modifiers", "idle"} =>
        \A k \in ParentKeys :
            LET kids == KidsOf(k)
                S == sanitize_name(kids[1].spec[1].name)
            IN  /\ \A i \in 1..Len(kids) : Parent(KidFolder(k, kids[i])) = ParentFolder(k)
                /\ \A i, j \in 1..Len(kids) :
                      i # j => KidFolder(k, kids[i]) # KidFolder(k, kids[j])
                /\ (/\ InitiallyEmpty(k)
                    /\ \A i \in 1..Len(kids) : sanitize_name(kids[i].spec[1].name) = S) =>
                       \A i \in 1..Len(kids) :
                          KidFolder(k, kids[i]) = ParentFolder(k) \o <<Suffixed(S, i)>>

\* C6 witness: three siblings named alike lie in "S", "S 2", "S 3" inside a
\* folder that is itself named "S"
CollisionResolved ==
    /\ pc = "idle"
    /\ <<"k1", "t3">> \in PulledKeys
    /\ nodeFolderMap[<<"k1">>] = <<NameS>>
    /\ nodeFolderMap[<<"k1", "t1">>] = <<NameS, NameS>>
    /\ nodeFolderMap[<<"k1", "t2">>] = <<NameS, <<"S", " ", "2">>>>
    /\ nodeFolderMap[<<"k1", "t3">>] = <<NameS, <<"S", " ", "3">>>>

\* the lengths of the prefixes of a modifier path that the index holds
IndexedPrefixes(parts) ==
    {i \in 1..Len(parts) : SubSeq(parts, 1, i) \in PulledKeys}

\* C7: a non-empty modifier list goes into the folder of the longest prefix of
\* its path that the index holds (the path itself when it is indexed); with no
\* indexed prefix, or an empty list, nothing is written and the pull goes on.
ModifierPathFallback ==
    [][DistributeModifier =>
          LET parts == Split(Head(modTodo)[1])
              modifier_list == Head(modTodo)[2]
              lens == IndexedPrefixes(parts)
          IN  /\ pc' = "modifiers"
              /\ IF Truthy(modifier_list) /\ lens # {}
                 THEN LET longest == CHOOSE i \in lens : \A j \in lens : j <= i
                          target == nodeFolderMap[SubSeq(parts, 1, longest)]
                      IN  /\ fs'[target].modifiers = <<modifier_list>>
                          /\ \A p \in DOMAIN fs \ {target} : fs'[p] = fs[p]
                 ELSE fs' = fs]_vars

\* C7 witness: the modifiers bound to "k1/t1/zz" lie in the folder of "k1", the
\* index holding neither "k1/t1/zz" nor "k1/t1"
ModifierFellBack ==
    /\ pc = "modifiers"
    /\ <<"k1">> \in PulledKeys
    /\ <<"k1", "t1">> \notin PulledKeys
    /\ fs[nodeFolderMap[<<"k1">>]].modifiers = <<Modifier("m1")>>
    /\ Len(modTodo) = 3

----------------------------------------------------------------------------
(* Properties of the push: failures *)

\* the folders of the discovery result the loop has gone through
Processed == {found[i].path : i \in 1..(Len(found) - Len(todo))}

Classified(p) ==
    \/ AtPath(p) \in Range(results.updated) \cup Range(results.created)
                     \cup Range(results.skipped) \cup Range(results.new_components)
    \/ \E j \in 1..Len(results.errors) : results.errors[j].what = AtPath(p)

\* C8: a Remote API failure while a folder is updated or created is recorded
\* in errors for that folder, and the loop goes on: every folder it has gone
\* through is classified, at the return every discovered folder is, and the
\* push raises only when some structured file is unparseable.
ApiFailureIsRecorded ==
    /\ pc \in {"pushing", "returned"} =>
          /\ \A i \in 1..Len(calls) :
                (~calls[i].ok /\ calls[i].op \in ComponentOps) =>
                    \E j \in 1..Len(results.errors) :
                        results.errors[j].what = AtPath(calls[i].path)
          /\ \A p \in Processed : Classified(p)
    /\ pc = "returned" => \A i \in 1..Len(found) : Classified(found[i].path)
    /\ pc = "raised" => SomeUnparseable

\* C8 witness: a push has returned in which the update or creation of one folder
\* failed and a folder after it was updated or created
FailureThenSuccess ==
    /\ pc = "returned"
    /\ \E i, j \in 1..Len(calls) :
          /\ i < j
          /\ calls[i].op \in ComponentOps /\ ~calls[i].ok
          /\ calls[j].op \in ComponentOps /\ calls[j].ok
          /\ calls[i].path # calls[j].path
          /\ AtPath(calls[j].path) \in Range(results.updated) \cup Range(results.created)

\* C9: with a structured file present but unparseable, the push does not abort.
UnparseableTolerated == SomeUnparseable => pc # "raised"

\* C10: when a push has updated a discovered folder that carries a remote id,
\* the sync state saved by that push holds the folder's new checksum against
\* that id.
UpdatedChecksumPersisted ==
    pc = "returned" =>
        \A i \in 1..Len(found) :
            (/\ found[i].component_id # ""
             /\ AtPath(found[i].path) \in Range(results.updated)) =>
                \E j \in 1..Len(syncState[1].components) :
                    LET entry == syncState[1].components[j][2]
                    IN  /\ entry.component_id = found[i].component_id
                        /\ entry.checksum = read_component_folder(fs[found[i].path]).checksum

----------------------------------------------------------------------------
(* Properties of the push: one folder of the loop *)

\* the calls a step has added to the log
NewCalls == SubSeq(calls', Len(calls) + 1, Len(calls'))

\* the loop has gone through the folder at the head of todo
FolderStep == pc = "pushing" /\ todo # <<>> /\ pc' = "pushing" /\ todo' = Tail(todo)

\* C11: a folder with a known remote id, pushed without force, whose recomputed
\* checksum equals the one stored in the sync state for that id, is listed
\* under skipped and no update_component call is made for it.
UnchangedIsSkipped ==
    [][ FolderStep =>
          LET h == Head(todo)
              read == read_component_folder(fs[h.path])
          IN  (/\ h.component_id # ""
               /\ ~pushArgs.force
               /\ ~read.raised
               /\ h.component_id \in DOMAIN checksumMap
               /\ checksumMap[h.component_id] = read.checksum) =>
                  /\ results'.skipped = Append(results.skipped, AtPath(h.path))
                  /\ results'.updated = results.updated
                  /\ results'.errors = results.errors
                  /\ \A i \in 1..Len(NewCalls) : NewCalls[i].op # "update_component" ]_vars

\* C11 witness: a push without force has listed a folder with a remote id under
\* skipped
SkippedReached ==
    /\ pc = "returned"
    /\ ~pushArgs.force
    /\ \E i \in 1..Len(found) :
          /\ found[i].component_id \in DOMAIN checksumMap
          /\ AtPath(found[i].path) \in Range(results.skipped)

\* C12: for a folder without remote id create_component is called only when
\* create_new is set; when the call succeeds the folder holds a sidecar with the
\* returned id and the folder's kind, and is listed under created.
CreateOnlyWhenAsked ==
    [][ (FolderStep /\ Head(todo).component_id = "") =>
          LET h == Head(todo)
              creates == {i \in 1..Len(NewCalls) : NewCalls[i].op = "create_component"}
          IN  /\ creates # {} => pushArgs.create_new
              /\ \A i \in 1..Len(NewCalls) : NewCalls[i].op \in {"create_component"}
              /\ \A i \in creates :
                    NewCalls[i].ok =>
                       /\ fs'[h.path].triform =
                             <<JObj(<<<<"id", JStr(NewIds[remote.created + 1])>>,
                                      <<"type", JStr(h.comp_type)>>>>)>>
                       /\ remote'.created = remote.created + 1
                       /\ results'.created = Append(results.created, AtPath(h.path))
                       /\ results'.updated = results.updated ]_vars

\* C12 witness: a push with create_new has created a component for a folder and
\* the folder holds its sidecar
CreatedReached ==
    /\ pc = "returned"
    /\ pushArgs.create_new
    /\ \E i \in 1..Len(found) :
          /\ found[i].component_id = ""
          /\ AtPath(found[i].path) \in Range(results.created)
          /\ SidecarId(fs[found[i].path]) \in Range(NewIds)

----------------------------------------------------------------------------
(* Properties of the watcher *)

Watching == watcher.pos \in {"polling", "sleeping", "syncing"}

\* a pass of the loop that triggers a push
Triggers == watcher.pos = "polling" /\ watcher'.pos = "syncing"

\* C13: two pushes triggered in one watch session are at least the debounce
\* apart: a push is triggered only when the debounce has passed since the push
\* triggered before it.
PushesDebounced ==
    [][ (Triggers /\ watcher.triggered) => watcher.trigger_age >= DebounceTicks ]_vars

\* C13 witness: a change was detected inside the debounce window of a triggered
\* push and no push was triggered for it
BurstHeldBack ==
    /\ watcher.pos = "sleeping"
    /\ watcher.triggered
    /\ watcher.unpushed
    /\ watcher.trigger_age < DebounceTicks

\* C14: a change the watcher has detected is eventually followed by a push,
\* unless the watcher is cancelled.
DetectedChangeIsPushed ==
    watcher.unpushed ~> (~watcher.unpushed \/ watcher.pos = "stopped")

\* C15: a pass of the loop that finds a tracked file it has not seen before
\* marks a change: a push is triggered or stays pending.
NewFileMarksChange ==
    [][ (/\ watcher.pos = "polling"
         /\ watcher'.pos \in {"sleeping", "syncing"}
         /\ get_tracked_files(fs) \ DOMAIN watcher.last_mtimes # {}) =>
            (watcher'.unpushed \/ watcher'.pos = "syncing") ]_vars

\* C16: the tracked file set holds the recognized files of every folder that
\* is structurally a component.
ComponentFilesTracked ==
    Watching =>
        \A p \in DOMAIN fs \ {Root} :
            detect_component_type(fs[p]) # "" =>
                FilesOf(fs, p, ComponentPatterns) \subseteq get_tracked_files(fs)

\* C17: when the watcher has been cancelled, no push is left cut short.
CancelCompletesPush == watcher.pos = "stopped" => pc # "interrupted"

\* C18: after a triggered push has raised, the watcher is still in its loop
\* (or was cancelled by the user).
FailedPushKeepsWatching == watcher.failed => (Watching \/ watcher.pos = "stopped")

\* C18 witness: after a triggered push that raised, a change was detected and a
\* new push triggered
PushAfterFailedPush == watcher.failed /\ watcher.pos = "syncing"

----------------------------------------------------------------------------
(* Properties of the pull: sync state and failure *)

\* C19: after a pull into an empty target every sync-state entry's directory is
\* a folder of the tree, and the kind inferred from its files is the entry's.
SyncStateKindsMatch ==
    (pc = "idle" /\ edits = 0 /\ pushes = 0 /\ syncState # <<>>) =>
        \A j \in 1..Len(syncState[1].components) :
            LET entry == syncState[1].components[j][2]
            IN  /\ <<entry.dir>> \in DOMAIN fs
                /\ detect_component_type(fs[<<entry.dir>>]) = entry.type

\* C20: a pull of a project the Remote API does not have fails and creates no
\* directory, no file, no project identity and no sync state.
MissingProjectLeavesNothing ==
    [][ (pc = "init" /\ pc' = "not_found") =>
           /\ fs' = fs
           /\ config' = <<>>
           /\ syncState' = <<>>
           /\ nodeFolderMap' = nodeFolderMap ]_vars

\* C20 witness: a pull has failed for a missing project, and the target
\* directory does not exist
MissingProjectReached ==
    /\ pc = "not_found"
    /\ Root \notin DOMAIN fs
    /\ config = <<>>
    /\ syncState = <<>>

----------------------------------------------------------------------------
(* C21..C30 *)

\* C21: a push started in a directory without the project identity file fails
\* as a whole: it makes no Remote API call, and it leaves the sync state, the
\* identity file and every local file as they were
NoIdentityNoPush ==
    [][ (pc = "idle" /\ pc' # "idle" /\ config = <<>>) =>
           /\ pc' = "not_a_project"
           /\ calls' = <<>>
           /\ remote' = remote
           /\ syncState' = syncState
           /\ config' = config
           /\ fs' = fs ]_vars

\* C21 witness: a push has failed in a directory that holds a component folder
\* but no identity file
NoIdentityReached ==
    /\ pc = "not_a_project"
    /\ config = <<>>
    /\ syncState = <<>>
    /\ \E p \in DOMAIN fs : detect_component_type(fs[p]) # ""

\* the folders below the root that hold the files of some kind and have no
\* dotted name and no triggers folder on their path
Qualifying(t) ==
    {p \in DOMAIN t \ {Root} :
        /\ detect_component_type(t[p]) # ""
        /\ \A i \in 1..Len(p) : Head(p[i]) # "." /\ p[i] # TriggersName}

FoundPaths == {found[i].path : i \in 1..Len(found)}

\* C23: a push discovers every qualifying folder below the project root, at
\* any depth, each exactly once, with its kind and the id of its sidecar
EveryFolderDiscovered ==
    pc \in {"pushing", "returned"} =>
        /\ FoundPaths = Qualifying(fs)
        /\ \A i, j \in 1..Len(found) : found[i].path = found[j].path => i = j
        /\ \A i \in 1..Len(found) :
              /\ found[i].comp_type = detect_component_type(fs[found[i].path])
              /\ found[i].component_id # "" =>
                    found[i].component_id = SidecarId(fs[found[i].path])

\* the kind of a folder by the stated order of the deciding files
HasSource(folder) == folder.py # <<>> /\ folder.py[1].name # DunderInit
HasAgentFile(folder) == folder.settings # <<>> \/ folder.prompts # <<>>
HasFlowFile(folder) == folder.io_nodes # <<>> \/ folder.nodes # <<>>
KindByPriority(folder) ==
    CASE HasSource(folder) -> "action"
      [] ~HasSource(folder) /\ HasAgentFile(folder) -> "agent"
      [] ~HasSource(folder) /\ ~HasAgentFile(folder) /\ HasFlowFile(folder) -> "flow"
      [] OTHER -> ""

PathsIn(list) == {list[i][2] : i \in {k \in 1..Len(list) : list[k][1] = "path"}}
ErrorPaths ==
    {results.errors[i].what[2] :
        i \in {k \in 1..Len(results.errors) : results.errors[k].what[1] = "path"}}

ListedPaths ==
    PathsIn(results.updated) \cup PathsIn(results.created) \cup PathsIn(results.skipped)
    \cup PathsIn(results.new_components) \cup ErrorPaths

\* C26: the kind of a folder is Leaf when it holds a source file, else Agent
\* when it holds settings or prompts, else Flow when it holds io_nodes.json or
\* nodes.json, else none; a push passes over a folder of no kind without an
\* error, and without a call or a result entry for it
KindInferredByPriority ==
    /\ \A p \in DOMAIN fs \ {Root} :
          detect_component_type(fs[p]) = KindByPriority(fs[p])
    /\ pc \in {"pushing", "returned", "raised"} =>
          \A p \in DOMAIN fs \ {Root} :
             KindByPriority(fs[p]) = "" =>
                /\ pc # "raised"
                /\ p \notin FoundPaths
                /\ p \notin ListedPaths
                /\ \A i \in 1..Len(calls) : calls[i].path # p

\* C26 witness: a push has taken a folder that holds settings, prompts and both
\* flow files but no source file as an agent
AgentBeforeFlow ==
    /\ pc = "returned"
    /\ \E i \in 1..Len(found) :
          /\ found[i].comp_type = "agent"
          /\ ~HasSource(fs[found[i].path])
          /\ HasAgentFile(fs[found[i].path])
          /\ HasFlowFile(fs[found[i].path])

Listed(list, p) ==
    Cardinality({k \in 1..Len(list) : list[k][1] = "path" /\ list[k][2] = p})
ListedAsError(p) ==
    Cardinality({k \in 1..Len(results.errors) :
                    /\ results.errors[k].what[1] = "path"
                    /\ results.errors[k].what[2] = p})
TimesListed(p) ==
    Listed(results.updated, p) + Listed(results.created, p) + Listed(results.skipped, p)
    + Listed(results.new_components, p) + ListedAsError(p)

\* C24: within one push every discovered folder the loop has gone through is
\* in exactly one of updated, created, skipped, errors and new_components, and
\* at the return that is every discovered folder
EachFolderInOneList ==
    /\ pc = "pushing" => \A p \in Processed : TimesListed(p) = 1
    /\ pc = "returned" => \A i \in 1..Len(found) : TimesListed(found[i].path) = 1

\* C24 witness: a folder the push before listed under skipped is listed under
\* updated by this push, its source having been edited in between
SkippedThenUpdated ==
    /\ pc = "returned"
    /\ previous.push # <<>>
    /\ previous.push[1].edits < edits
    /\ \E p \in previous.push[1].skipped :
          Listed(results.updated, p) = 1 /\ TimesListed(p) = 1

SavedComponents(state) == IF state = <<>> THEN <<>> ELSE state[1].components

\* C25: a push adds no sync-state entry and removes none; the key, directory,
\* kind and remote id of every entry stay; a checksum changes only for a
\* component the push has updated, and only when the push returns
PushKeepsEntries ==
    [][ /\ (pc \in {"idle", "pushing"} /\ pc' # "returned") => syncState' = syncState
        /\ (pc = "pushing" /\ pc' = "returned") =>
              LET before == SavedComponents(syncState)
                  after == SavedComponents(syncState')
              IN  /\ Len(after) = Len(before)
                  /\ \A i \in 1..Len(before) :
                        /\ after[i][1] = before[i][1]
                        /\ after[i][2].dir = before[i][2].dir
                        /\ after[i][2].type = before[i][2].type
                        /\ after[i][2].component_id = before[i][2].component_id
                        /\ after[i][2].checksum # before[i][2].checksum =>
                              \E k \in 1..Len(calls) :
                                 /\ calls[k].op = "update_component"
                                 /\ calls[k].ok
                                 /\ calls[k].id = before[i][2].component_id
                                 /\ Listed(results.updated, calls[k].path) = 1 ]_vars

\* C25 witness: a push has returned and saved another checksum for a component
\* it updated, while a folder with a sidecar and no entry was updated too
ChecksumReplaced ==
    /\ pc = "returned"
    /\ \E i \in 1..Len(syncState[1].components) :
          LET entry == syncState[1].components[i][2]
          IN  /\ entry.component_id \in DOMAIN checksumMap
              /\ entry.checksum # checksumMap[entry.component_id]
    /\ \E k \in 1..Len(calls) :
          /\ calls[k].op = "update_component"
          /\ calls[k].ok
          /\ calls[k].id \notin DOMAIN checksumMap

\* the push before this one was not forced, returned with no failed update,
\* and nothing has been edited since; no folder has been created remotely
AfterCleanPush ==
    /\ previous.push # <<>>
    /\ remote.created = 0
    /\ ~previous.push[1].force
    /\ previous.push[1].outcome = "returned"
    /\ previous.push[1].failed = {}
    /\ previous.push[1].edits = edits

\* C27: a push that is not forced and comes right after a push that was not
\* forced and whose updates all succeeded, with no edit in between, makes no
\* update_component call and lists no folder under updated
RepushUpdatesNothing ==
    (pc \in {"pushing", "returned"} /\ ~pushArgs.force /\ AfterCleanPush) =>
        /\ \A k \in 1..Len(calls) : calls[k].op # "update_component"
        /\ PathsIn(results.updated) = {}

\* the checksum the entries hold for an id, when some entry has the id
StoredFor(components, id) ==
    {components[i][2].checksum :
        i \in {k \in 1..Len(components) : components[k][2].component_id = id}}

\* an update that failed in this push has left the stored checksum of its id
FailedUpdateKeepsChecksum ==
    pc \in {"pushing", "returned"} =>
        \A k \in 1..Len(calls) :
           (calls[k].op = "update_component" /\ ~calls[k].ok
            /\ calls[k].id \in DOMAIN checksumMap) =>
              /\ StoredFor(st, calls[k].id) = {checksumMap[calls[k].id]}
              /\ pc = "returned" =>
                    StoredFor(syncState[1].components, calls[k].id)
                       = {checksumMap[calls[k].id]}

\* the folders whose update failed in the push before, which this push, not
\* forced and with nothing edited since, has gone through
FailedBefore ==
    IF /\ pc \in {"pushing", "returned"}
       /\ ~pushArgs.force
       /\ previous.push # <<>>
       /\ previous.push[1].edits = edits
    THEN previous.push[1].failed \cap Processed
    ELSE {}

UpdateAttempted(p) ==
    /\ \E k \in 1..Len(calls) : calls[k].op = "update_component" /\ calls[k].path = p
    /\ Listed(results.skipped, p) = 0

\* C28 as stated: a failed update leaves the stored checksum as it was, and
\* the next push that is not forced, with the same content, attempts the
\* update again instead of taking the folder for unchanged
FailedUpdateRetried ==
    /\ FailedUpdateKeepsChecksum
    /\ \A p \in FailedBefore : UpdateAttempted(p)

\* C28 amended: a failed update leaves the stored checksum as it was; when the
\* failed update was made by a push that was not forced, the next push that is
\* not forced, with the same content, attempts the update again
UnforcedFailedUpdateRetried ==
    /\ FailedUpdateKeepsChecksum
    /\ (previous.push # <<>> /\ ~previous.push[1].force) =>
          \A p \in FailedBefore : UpdateAttempted(p)

\* C28 witness: the update of a folder failed in a push that was not forced,
\* and the next push, not forced either, has called update_component for it
RetryReached ==
    /\ pc = "returned"
    /\ previous.push # <<>>
    /\ ~previous.push[1].force
    /\ \E p \in FailedBefore :
          /\ UpdateAttempted(p)
          /\ \E i \in 1..Len(found) :
                found[i].path = p /\ found[i].component_id \in DOMAIN checksumMap

\* the folders whose sidecar names a component that a push has created
CreatedFolders ==
    {p \in DOMAIN fs :
        /\ fs[p].triform # <<>>
        /\ fs[p].triform[1] # Unparseable
        /\ Get(fs[p].triform[1], "id", JStr(""))[2] \in Range(NewIds)}

\* C29: over any sequence of pushes createComponent succeeds at most once per
\* folder: the components created are as many as the folders holding the
\* sidecar of one; a push calls createComponent only for a folder it found
\* without a sidecar id; a creation that succeeds writes the sidecar and lists
\* the folder under created, one that fails writes none and lists the folder
\* under errors and not under created
CreatedAtMostOnce ==
    /\ remote.created = Cardinality(CreatedFolders)
    /\ pc \in {"pushing", "returned"} =>
          \A k \in 1..Len(calls) :
             calls[k].op = "create_component" =>
                LET p == calls[k].path
                IN  /\ pushArgs.create_new
                    /\ \A i \in 1..Len(found) :
                          found[i].path = p => found[i].component_id = ""
                    /\ calls[k].ok =>
                          /\ p \in CreatedFolders
                          /\ Listed(results.created, p) = 1
                          /\ ListedAsError(p) = 0
                    /\ ~calls[k].ok =>
                          /\ fs[p].triform = <<>>
                          /\ Listed(results.created, p) = 0
                          /\ ListedAsError(p) = 1

\* C29 witness: a push with create_new has gone through a folder that an
\* earlier push created, and has sent it with update_component
CreatedThenKnown ==
    /\ pc = "returned"
    /\ pushArgs.create_new
    /\ \E i \in 1..Len(found) :
          /\ found[i].component_id \in Range(NewIds)
          /\ found[i].path \in CreatedFolders
          /\ \E k \in 1..Len(calls) :
                /\ calls[k].op = "update_component"
                /\ calls[k].path = found[i].path
          /\ \A k \in 1..Len(calls) :
                calls[k].op = "create_component" => calls[k].path # found[i].path

\* a step of the push the watcher has triggered, with no file saved meanwhile
WatcherPushStep ==
    /\ watcher.pos \in {"polling", "syncing"}
    /\ watcher'.pos = "syncing"
    /\ edits' = edits
    /\ <<pc, todo, syncState>> # <<pc', todo', syncState'>>

\* C30: while no tracked file is edited the watcher triggers no push: none on
\* an untouched tree, and never more pushes than files have been saved; and a
\* push the watcher has triggered changes no tracked file, nor which files are
\* tracked
WatcherPushesOnlyAfterEdits ==
    /\ [](/\ pushes <= edits
          /\ edits = 0 => (~watcher.triggered /\ pc \in {"init", "modifiers", "idle"}))
    /\ [][ WatcherPushStep =>
              /\ get_tracked_files(fs') = get_tracked_files(fs)
              /\ \A f \in get_tracked_files(fs) : Mtime(mtime', f) = Mtime(mtime, f) ]_vars

\* C30 witness: the watcher has triggered a push after a file was saved, the
\* push is over, the watcher has polled again and gone back to sleep, and
\* there have been as many pushes as saves
QuietAfterPush ==
    /\ watcher.pos = "sleeping"
    /\ watcher.triggered
    /\ pc = "idle"
    /\ pushes = 1
    /\ edits = 1
    /\ watcher.sync_age >= DebounceTicks
    /\ ~watcher.unpushed

====
